---- MODULE Spec2Model ----
(***************************************************************************)
(* Model of the websocket hub of CUknot/network_backend: the Hub           *)
(* goroutine (Hub.Run), one read task (Client.readPump, which runs         *)
(* HandleIncomingMessage) and one write task (Client.writePump) per        *)
(* connection, the shared maps h.clients and h.rooms, the RWMutex          *)
(* h.roomsMux, and the buffered channel client.send.                       *)
(*                                                                         *)
(* Steps are split where the code synchronises or where another goroutine  *)
(* can run in between: a channel operation, a lock acquisition, the        *)
(* iteration of broadcastToRoom member by member, and between the select   *)
(* that finds a full queue and the close that follows it.                  *)
(*                                                                         *)
(* Spec is the websocket side with every interleaving of the tasks.        *)
(* SpecRegistry and SpecTeardown are the same actions restricted to the    *)
(* registry operations, the second with the REST CreateMessage handler as  *)
(* broadcaster and a budget of client requests.  SpecInvite is the invite   *)
(* handshake (invite_users, accept_invite, reject_invite) over the tables  *)
(* of the database, with the same budget, and SpecRespond the handshake    *)
(* answered over the websocket and over REST RespondToInvite at once.      *)
(* SpecWrite follows writePump frame by frame, SpecRead adds frames that   *)
(* cannot be decoded, SpecDeadline the read deadline.  SpecTeardownFair    *)
(* and SpecReply state the scheduling of the goroutines as weak fairness.  *)
(*                                                                         *)
(* The remaining specifications are slices with the request budget:        *)
(* SpecBroadcast (room frames), SpecDirect (invite and reject              *)
(* notifications to one user), SpecAccept, SpecReinvite, SpecLeave and     *)
(* SpecPayload over a database that already holds a pending invite,        *)
(* SpecPost (REST CreateMessage with its membership check) and             *)
(* SpecConnect (HandleConnection from the request to the two pumps).       *)
(***************************************************************************)
EXTENDS Integers, Sequences, FiniteSets, TLC

\* ---- bounds of the model ------------------------------------------------
NumClients == 2          \* connections that are ever upgraded
NumRooms == 2            \* room ids 1..NumRooms
SendCap == 1             \* capacity of client.send (256 in HandleConnection), scaled down
MaxRequests == 4         \* client requests admitted by the specifications that count them
PongWait == 2            \* ticks of the read deadline (pongWait, 60 s), scaled down
UintBits == 4            \* bit size of the unsigned integers ParseUint accepts (32), scaled down

Clients == 1..NumClients
Rooms == 1..NumRooms
RestTask == 0                       \* the goroutine of the REST CreateMessage handler
Tasks == {RestTask} \cup Clients    \* the callers of broadcastToRoom
Users == Clients                    \* rows of the users table: ids 1..NumClients

VARIABLES
    clients,     \* h.clients: the registered clients
    rooms,       \* h.rooms: room id -> member set, defined on the rooms that have an entry
    hubpc,       \* Hub.Run: <<"select", 0>>, or <<"rooms", c>> between close(c.send) and roomsMux.Lock()
    rpc,         \* readPump of each client: new, read, dispatch, bcast, evict, unreg, done;
                 \* of the REST handler: idle, bcast, evict
    wpc,         \* writePump of each client: new, run, done
    conn,        \* c.conn is open
    send,        \* buffer of the channel c.send
    closed,      \* c.send has been closed
    crooms,      \* c.rooms
    cur,         \* the envelope HandleIncomingMessage is working on
    bframe,      \* broadcastToRoom: the frame being fanned out
    todo,        \* broadcastToRoom: members the range loop has not produced yet
    got,         \* broadcastToRoom: members this call has enqueued the frame on
    victim,      \* broadcastToRoom: the member whose select took the default branch
    nreq,        \* requests admitted so far (counted by SpecTeardown and SpecInvite)
    dbRooms,     \* table rooms: the ids that have a row
    roomUsers,   \* table room_users: pairs <<room, user>>
    invites,     \* table invite_requests: row i has id i
    hv,          \* locals of the invite handler a read task is in
    panicked,    \* "none", or the run-time panic that ended the process
    wire,        \* the frames written to c.conn, in the order they were written
    wbuf,        \* writePump: the frames written into the writer w that is not closed yet
    wn,          \* writePump: iterations the coalescing loop has left (n - i)
    deadline,    \* ticks left until the read deadline of c.conn
    resp,        \* the REST RespondToInvite request in flight
    uid          \* c.userID: the user_id the connection was upgraded with, 0 before

vars == <<clients, rooms, hubpc, rpc, wpc, conn, send, closed, crooms, cur,
          bframe, todo, got, victim, nreq, dbRooms, roomUsers, invites, hv,
          panicked, wire, wbuf, wn, deadline, resp, uid>>

durable == <<dbRooms, roomUsers, invites>>
socket == <<wire, wbuf, wn>>

NoResponse == [pc |-> "idle", user |-> 0, invite |-> 0, action |-> "none"]

NoEnvelope == [type |-> "none", room |-> 0]
NoFrame == [type |-> "none", room |-> 0]
NoLocals == [username |-> 0, tag |-> 0, receiver |-> 0, invite |-> 0, target |-> 0, room |-> 0]

InboundTypes == {"join_room", "leave_room", "message"}

\* ---- the room index (h.rooms) --------------------------------------------
Members(rm, r) == IF r \in DOMAIN rm THEN rm[r] ELSE {}

\* Hub.joinRoom: create the entry if missing, then add the client
joinRoom(rm, c, r) ==
    [x \in (DOMAIN rm) \cup {r} |-> IF x = r THEN Members(rm, r) \cup {c} ELSE rm[x]]

\* a leaveRoom that drops the room's entry without looking at who is left in it
leaveRoomDropsEntry(rm, c, r) ==
    [x \in (DOMAIN rm) \ {r} |-> rm[x]]

\* Hub.leaveRoom: delete the client from an existing entry, drop the entry when empty
leaveRoom(rm, c, r) ==
    IF r \in DOMAIN rm
    THEN IF rm[r] \ {c} = {}
         THEN [x \in (DOMAIN rm) \ {r} |-> rm[x]]
         ELSE [rm EXCEPT ![r] = rm[r] \ {c}]
    ELSE rm

\* an unregister loop without the clean-up of empty rooms
removeFromAllRoomsKeepsEmpty(rm, c) ==
    [x \in DOMAIN rm |-> rm[x] \ {c}]

\* Hub.Run, unregister case: the loop over h.rooms deletes the client from
\* every room that holds it and drops each such room when it becomes empty
removeFromAllRooms(rm, c) ==
    [x \in {y \in DOMAIN rm : ~(c \in rm[y] /\ rm[y] = {c})} |-> rm[x] \ {c}]

\* broadcastToRoom, default branch: delete(clients, client) on the room's map
evictFromRoom(rm, c, r) == [rm EXCEPT ![r] = rm[r] \ {c}]

\* tasks inside broadcastToRoom hold roomsMux.RLock()
Readers == {c \in Tasks : rpc[c] \in {"bcast", "evict"}}

Running == panicked = "none"

\* the process after InitHub, before any request, over any rows of
\* invite_requests
InitProcess ==
    /\ clients = {}
    /\ rooms = [x \in {} |-> {}]
    /\ hubpc = <<"select", 0>>
    /\ rpc = [c \in Tasks |-> IF c = RestTask THEN "idle" ELSE "new"]
    /\ wpc = [c \in Clients |-> "new"]
    /\ conn = [c \in Clients |-> FALSE]
    /\ send = [c \in Clients |-> <<>>]
    /\ closed = [c \in Clients |-> FALSE]
    /\ crooms = [c \in Clients |-> {}]
    /\ cur = [c \in Clients |-> NoEnvelope]
    /\ bframe = [c \in Tasks |-> NoFrame]
    /\ todo = [c \in Tasks |-> {}]
    /\ got = [c \in Tasks |-> {}]
    /\ victim = [c \in Tasks |-> 0]
    /\ nreq = 0
    /\ dbRooms = Rooms
    /\ roomUsers = {}
    /\ hv = [c \in Clients |-> NoLocals]
    /\ panicked = "none"
    /\ wire = [c \in Clients |-> <<>>]
    /\ wbuf = [c \in Clients |-> <<>>]
    /\ wn = [c \in Clients |-> 0]
    /\ deadline = [c \in Clients |-> 0]
    /\ resp = NoResponse
    /\ uid = [c \in Clients |-> 0]

\* the process started over a database without invites
Init == InitProcess /\ invites = <<>>

\* ---- connection establishment and the hub --------------------------------

\* HandleConnection of a request with user_id = u: the upgrade,
\* hub.register <- client received by Hub.Run, then both pumps are started
Upgrade(c, u) ==
    /\ Running
    /\ rpc[c] = "new"
    /\ hubpc[1] = "select"
    /\ uid' = [uid EXCEPT ![c] = u]
    /\ clients' = clients \cup {c}
    /\ rpc' = [rpc EXCEPT ![c] = "read"]
    /\ wpc' = [wpc EXCEPT ![c] = "run"]
    /\ conn' = [conn EXCEPT ![c] = TRUE]
    /\ deadline' = [deadline EXCEPT ![c] = PongWait]
    /\ UNCHANGED <<socket, resp, durable, hv, rooms, hubpc, send, closed, crooms, cur, bframe, todo, got,
                   victim, panicked>>

\* every user with one connection: connection c is opened with user_id = c
HandleConnection(c) == Upgrade(c, c) /\ UNCHANGED nreq

\* Hub.Run, case client := <-h.unregister, up to roomsMux.Lock().
\* The receive releases readPump's deferred function, which closes the socket.
HubUnregister(c) ==
    /\ Running
    /\ rpc[c] = "unreg"
    /\ hubpc[1] = "select"
    /\ rpc' = [rpc EXCEPT ![c] = "done"]
    /\ conn' = [conn EXCEPT ![c] = FALSE]
    /\ IF c \in clients
       THEN /\ clients' = clients \ {c}
            /\ IF closed[c]
               THEN /\ panicked' = "close of closed channel"
                    /\ UNCHANGED <<closed, hubpc>>
               ELSE /\ closed' = [closed EXCEPT ![c] = TRUE]
                    /\ hubpc' = <<"rooms", c>>
                    /\ UNCHANGED panicked
       ELSE UNCHANGED <<clients, closed, hubpc, panicked>>
    /\ UNCHANGED <<uid, socket, deadline, resp, nreq, durable, hv, rooms, wpc, send, crooms, cur, bframe, todo, got, victim>>

\* Hub.Run, unregister case, the section under roomsMux.Lock()
HubRemoveFromRooms ==
    /\ Running
    /\ hubpc[1] = "rooms"
    /\ Readers = {}
    /\ rooms' = removeFromAllRooms(rooms, hubpc[2])
    /\ hubpc' = <<"select", 0>>
    /\ UNCHANGED <<uid, socket, deadline, resp, nreq, durable, hv, clients, rpc, wpc, conn, send, closed, crooms, cur, bframe,
                   todo, got, victim, panicked>>

\* ---- readPump ------------------------------------------------------------

\* readPump: c.conn.ReadMessage returns a well-formed envelope
ReadMessage(c, t, r) ==
    /\ Running
    /\ rpc[c] = "read"
    /\ conn[c]
    /\ rpc' = [rpc EXCEPT ![c] = "dispatch"]
    /\ cur' = [cur EXCEPT ![c] = [type |-> t, room |-> r]]
    /\ UNCHANGED <<uid, socket, deadline, resp, durable, hv, clients, rooms, hubpc, wpc, conn, send, closed, crooms, bframe,
                   todo, got, victim, panicked>>

ReadEnvelope(c, t, r) == ReadMessage(c, t, r) /\ UNCHANGED nreq

\* readPump: ReadMessage returns bytes that json.Unmarshal cannot decode as
\* a Message
ReadMalformed(c) == ReadMessage(c, "malformed", 0) /\ UNCHANGED nreq

\* a read loop that ends the session on a frame it cannot decode
DropMalformedEndsSession(c) ==
    /\ Running
    /\ rpc[c] = "dispatch"
    /\ cur[c].type = "malformed"
    /\ rpc' = [rpc EXCEPT ![c] = "unreg"]
    /\ cur' = [cur EXCEPT ![c] = NoEnvelope]
    /\ UNCHANGED <<uid, socket, deadline, resp, nreq, durable, hv, clients, rooms, hubpc, wpc, conn,
                   send, closed, crooms, bframe, todo, got, victim, panicked>>

\* readPump: json.Unmarshal returns an error; a log line and continue
DropMalformed(c) ==
    /\ Running
    /\ rpc[c] = "dispatch"
    /\ cur[c].type = "malformed"
    /\ rpc' = [rpc EXCEPT ![c] = "read"]
    /\ cur' = [cur EXCEPT ![c] = NoEnvelope]
    /\ UNCHANGED <<uid, socket, deadline, resp, nreq, durable, hv, clients, rooms, hubpc, wpc, conn,
                   send, closed, crooms, bframe, todo, got, victim, panicked>>

\* readPump: ReadMessage returns an error (peer gone, deadline, socket closed
\* by writePump); the deferred function then blocks on hub.unregister <- c
ReadError(c) ==
    /\ Running
    /\ rpc[c] = "read"
    /\ rpc' = [rpc EXCEPT ![c] = "unreg"]
    /\ UNCHANGED <<uid, socket, deadline, resp, nreq, durable, hv, clients, rooms, hubpc, wpc, conn, send, closed, crooms, cur,
                   bframe, todo, got, victim, panicked>>

\* a join_room that admits only durable members of the room and drops the
\* envelope of anybody else
HandleJoinRoomMembersOnly(c) ==
    /\ Running
    /\ rpc[c] = "dispatch"
    /\ cur[c].type = "join_room"
    /\ Readers = {}
    /\ IF <<cur[c].room, c>> \in roomUsers
       THEN /\ crooms' = [crooms EXCEPT ![c] = @ \cup {cur[c].room}]
            /\ rooms' = joinRoom(rooms, c, cur[c].room)
       ELSE UNCHANGED <<crooms, rooms>>
    /\ rpc' = [rpc EXCEPT ![c] = "read"]
    /\ cur' = [cur EXCEPT ![c] = NoEnvelope]
    /\ UNCHANGED <<uid, socket, deadline, resp, nreq, durable, hv, clients, hubpc, wpc, conn, send,
                   closed, bframe, todo, got, victim, panicked>>

\* HandleIncomingMessage, case "join_room": Client.joinRoom and Hub.joinRoom
HandleJoinRoom(c) ==
    /\ Running
    /\ rpc[c] = "dispatch"
    /\ cur[c].type = "join_room"
    /\ Readers = {}
    /\ crooms' = [crooms EXCEPT ![c] = @ \cup {cur[c].room}]
    /\ rooms' = joinRoom(rooms, c, cur[c].room)
    /\ rpc' = [rpc EXCEPT ![c] = "read"]
    /\ cur' = [cur EXCEPT ![c] = NoEnvelope]
    /\ UNCHANGED <<uid, socket, deadline, resp, nreq, durable, hv, clients, hubpc, wpc, conn, send, closed, bframe, todo, got,
                   victim, panicked>>

\* a leave_room that updates c.rooms and forgets the hub's room index
HandleLeaveRoomSessionOnly(c) ==
    /\ Running
    /\ rpc[c] = "dispatch"
    /\ cur[c].type = "leave_room"
    /\ Readers = {}
    /\ crooms' = [crooms EXCEPT ![c] = @ \ {cur[c].room}]
    /\ rpc' = [rpc EXCEPT ![c] = "read"]
    /\ cur' = [cur EXCEPT ![c] = NoEnvelope]
    /\ UNCHANGED <<uid, socket, deadline, resp, nreq, durable, hv, clients, rooms, hubpc, wpc, conn, send,
                   closed, bframe, todo, got, victim, panicked>>

\* a leave_room that also deletes the user's row of room_users
HandleLeaveRoomDeletesMembership(c) ==
    /\ Running
    /\ rpc[c] = "dispatch"
    /\ cur[c].type = "leave_room"
    /\ Readers = {}
    /\ crooms' = [crooms EXCEPT ![c] = @ \ {cur[c].room}]
    /\ rooms' = leaveRoom(rooms, c, cur[c].room)
    /\ roomUsers' = roomUsers \ {<<cur[c].room, uid[c]>>}
    /\ rpc' = [rpc EXCEPT ![c] = "read"]
    /\ cur' = [cur EXCEPT ![c] = NoEnvelope]
    /\ UNCHANGED <<uid, socket, deadline, resp, nreq, dbRooms, invites, hv, clients, hubpc, wpc, conn,
                   send, closed, bframe, todo, got, victim, panicked>>

\* HandleIncomingMessage, case "leave_room": Client.leaveRoom and Hub.leaveRoom
HandleLeaveRoom(c) ==
    /\ Running
    /\ rpc[c] = "dispatch"
    /\ cur[c].type = "leave_room"
    /\ Readers = {}
    /\ crooms' = [crooms EXCEPT ![c] = @ \ {cur[c].room}]
    /\ rooms' = leaveRoom(rooms, c, cur[c].room)
    /\ rpc' = [rpc EXCEPT ![c] = "read"]
    /\ cur' = [cur EXCEPT ![c] = NoEnvelope]
    /\ UNCHANGED <<uid, socket, deadline, resp, nreq, durable, hv, clients, hubpc, wpc, conn, send, closed, bframe, todo, got,
                   victim, panicked>>

\* Client.inRoom
inRoom(c, r) == r \in crooms[c]

\* HandleIncomingMessage, case "message", when inRoom is false: a log line
\* and return
HandleMessageNotInRoom(c) ==
    /\ Running
    /\ rpc[c] = "dispatch"
    /\ cur[c].type = "message"
    /\ ~inRoom(c, cur[c].room)
    /\ rpc' = [rpc EXCEPT ![c] = "read"]
    /\ cur' = [cur EXCEPT ![c] = NoEnvelope]
    /\ UNCHANGED <<uid, socket, deadline, resp, nreq, durable, hv, clients, rooms, hubpc, wpc, conn, send, closed, crooms, bframe,
                   todo, got, victim, panicked>>

\* HandleIncomingMessage, case "message", when SaveMessageToDB fails: a log
\* line and return
HandleMessageSaveError(c) ==
    /\ Running
    /\ rpc[c] = "dispatch"
    /\ cur[c].type = "message"
    /\ inRoom(c, cur[c].room)
    /\ rpc' = [rpc EXCEPT ![c] = "read"]
    /\ cur' = [cur EXCEPT ![c] = NoEnvelope]
    /\ UNCHANGED <<uid, socket, deadline, resp, nreq, durable, hv, clients, rooms, hubpc, wpc, conn, send, closed, crooms, bframe,
                   todo, got, victim, panicked>>

\* HandleIncomingMessage, case "message": SaveMessageToDB succeeds, the saved
\* row becomes the payload of the response frame, and broadcastToRoom is
\* entered: roomsMux.RLock() and the start of the range loop over
\* h.rooms[roomID] (no iteration when the room has no entry)
HandleMessage(c) ==
    /\ Running
    /\ rpc[c] = "dispatch"
    /\ cur[c].type = "message"
    /\ inRoom(c, cur[c].room)
    /\ bframe' = [bframe EXCEPT ![c] = [type |-> "message", room |-> cur[c].room]]
    /\ rpc' = [rpc EXCEPT ![c] = "bcast"]
    /\ todo' = [todo EXCEPT ![c] = Members(rooms, cur[c].room)]
    /\ got' = [got EXCEPT ![c] = {}]
    /\ UNCHANGED <<uid, socket, deadline, resp, nreq, durable, hv, clients, rooms, hubpc, wpc, conn, send, closed, crooms, cur,
                   victim, panicked>>

\* ---- Hub.broadcastToRoom, run by the caller under roomsMux.RLock() --------

\* the members the range loop can still produce: a key deleted before it is
\* reached is not produced
Pending(c) == todo[c] \cap Members(rooms, bframe[c].room)

\* one iteration of the range loop: the select on client.send
BroadcastSelect(c, d) ==
    /\ Running
    /\ rpc[c] = "bcast"
    /\ d \in Pending(c)
    /\ IF closed[d]
       THEN \* a send on a closed channel panics, also inside a select
            /\ panicked' = "send on closed channel"
            /\ UNCHANGED <<send, got, todo, rpc, victim>>
       ELSE IF Len(send[d]) < SendCap
       THEN /\ send' = [send EXCEPT ![d] = Append(@, bframe[c])]
            /\ got' = [got EXCEPT ![c] = @ \cup {d}]
            /\ todo' = [todo EXCEPT ![c] = @ \ {d}]
            /\ UNCHANGED <<rpc, victim, panicked>>
       ELSE \* default branch taken
            /\ rpc' = [rpc EXCEPT ![c] = "evict"]
            /\ victim' = [victim EXCEPT ![c] = d]
            /\ UNCHANGED <<send, got, todo, panicked>>
    /\ UNCHANGED <<uid, socket, deadline, resp, nreq, durable, hv, clients, rooms, hubpc, wpc, conn, closed, crooms, cur, bframe>>

\* the default branch: close(client.send); delete(clients, client);
\* delete(h.clients, client)
BroadcastEvict(c) ==
    /\ Running
    /\ rpc[c] = "evict"
    /\ IF closed[victim[c]]
       THEN /\ panicked' = "close of closed channel"
            /\ UNCHANGED <<closed, rooms, clients, todo, rpc, victim>>
       ELSE /\ closed' = [closed EXCEPT ![victim[c]] = TRUE]
            /\ rooms' = evictFromRoom(rooms, victim[c], bframe[c].room)
            /\ clients' = clients \ {victim[c]}
            /\ todo' = [todo EXCEPT ![c] = @ \ {victim[c]}]
            /\ rpc' = [rpc EXCEPT ![c] = "bcast"]
            /\ victim' = [victim EXCEPT ![c] = 0]
            /\ UNCHANGED panicked
    /\ UNCHANGED <<uid, socket, deadline, resp, nreq, durable, hv, hubpc, wpc, conn, send, crooms, cur, bframe, got>>

\* the default branch writes the room's map under the read lock and h.clients
\* under no lock. Another task that ranges over the same room's map, or that
\* is in its own default branch, races with these writes; the outcome of the
\* race is either the writes above or the run time's abort
MapRace(c) ==
    \E d \in Readers \ {c} : bframe[d].room = bframe[c].room \/ rpc[d] = "evict"

BroadcastEvictRace(c) ==
    /\ Running
    /\ rpc[c] = "evict"
    /\ MapRace(c)
    /\ panicked' = "concurrent map writes"
    /\ UNCHANGED <<uid, socket, deadline, resp, nreq, durable, hv, clients, rooms, hubpc, rpc, wpc, conn, send, closed, crooms, cur,
                   bframe, todo, got, victim>>

\* the range loop is exhausted: RUnlock and return to the caller (readPump
\* reads on, HandleAcceptInvite goes on to its confirmation, the REST handler
\* answers its request)
BroadcastReturn(c) ==
    /\ Running
    /\ rpc[c] = "bcast"
    /\ Pending(c) = {}
    /\ rpc' = [rpc EXCEPT ![c] = IF c = RestTask THEN "idle"
                                 ELSE IF bframe[c].type = "user_joined" THEN "acc_confirm"
                                 ELSE "read"]
    /\ cur' = [x \in Clients |-> IF x = c THEN NoEnvelope ELSE cur[x]]
    /\ bframe' = [bframe EXCEPT ![c] = NoFrame]
    /\ todo' = [todo EXCEPT ![c] = {}]
    /\ got' = [got EXCEPT ![c] = {}]
    /\ UNCHANGED <<uid, socket, deadline, resp, nreq, durable, hv, clients, rooms, hubpc, wpc, conn, send, closed, crooms, victim,
                   panicked>>

\* ---- writePump -----------------------------------------------------------

\* writePump: a frame is received from c.send and written to the socket; a
\* failed write returns and closes the socket
WriteFrame(c, ok) ==
    /\ Running
    /\ wpc[c] = "run"
    /\ send[c] # <<>>
    /\ send' = [send EXCEPT ![c] = Tail(@)]
    /\ IF ok
       THEN UNCHANGED <<wpc, conn>>
       ELSE /\ wpc' = [wpc EXCEPT ![c] = "done"]
            /\ conn' = [conn EXCEPT ![c] = FALSE]
    /\ UNCHANGED <<uid, socket, deadline, resp, nreq, durable, hv, clients, rooms, hubpc, rpc, closed, crooms, cur, bframe, todo, got,
                   victim, panicked>>

\* writePump: the receive reports the channel closed and drained; the close
\* message is written and the socket closed
WriteClosed(c) ==
    /\ Running
    /\ wpc[c] = "run"
    /\ send[c] = <<>>
    /\ closed[c]
    /\ wpc' = [wpc EXCEPT ![c] = "done"]
    /\ conn' = [conn EXCEPT ![c] = FALSE]
    /\ UNCHANGED <<uid, socket, deadline, resp, nreq, durable, hv, clients, rooms, hubpc, rpc, send, closed, crooms, cur, bframe, todo,
                   got, victim, panicked>>

\* writePump: the ticker's ping fails to write
WritePingError(c) ==
    /\ Running
    /\ wpc[c] = "run"
    /\ wpc' = [wpc EXCEPT ![c] = "done"]
    /\ conn' = [conn EXCEPT ![c] = FALSE]
    /\ UNCHANGED <<uid, socket, deadline, resp, nreq, durable, hv, clients, rooms, hubpc, rpc, send, closed, crooms, cur, bframe, todo,
                   got, victim, panicked>>

\* ---- writePump, frame by frame ----------------------------------------------

\* case message, ok := <-c.send with ok true: the head of the queue is
\* received, NextWriter opens the writer w and w.Write(message)
WriteReceive(c) ==
    /\ Running
    /\ wpc[c] = "run"
    /\ send[c] # <<>>
    /\ wbuf' = [wbuf EXCEPT ![c] = <<Head(send[c])>>]
    /\ send' = [send EXCEPT ![c] = Tail(@)]
    /\ wpc' = [wpc EXCEPT ![c] = "len"]
    /\ UNCHANGED <<uid, wire, wn, deadline, resp, nreq, durable, hv, clients, rooms, hubpc, rpc,
                   conn, closed, crooms, cur, bframe, todo, got, victim, panicked>>

\* the same receive when NextWriter returns an error: writePump returns and
\* its deferred function closes the socket
WriteNextWriterError(c) ==
    /\ Running
    /\ wpc[c] = "run"
    /\ send[c] # <<>>
    /\ send' = [send EXCEPT ![c] = Tail(@)]
    /\ wpc' = [wpc EXCEPT ![c] = "done"]
    /\ conn' = [conn EXCEPT ![c] = FALSE]
    /\ UNCHANGED <<uid, socket, deadline, resp, nreq, durable, hv, clients, rooms, hubpc, rpc,
                   closed, crooms, cur, bframe, todo, got, victim, panicked>>

\* n := len(c.send)
WriteLen(c) ==
    /\ Running
    /\ wpc[c] = "len"
    /\ wn' = [wn EXCEPT ![c] = Len(send[c])]
    /\ wpc' = [wpc EXCEPT ![c] = "coalesce"]
    /\ UNCHANGED <<uid, wire, wbuf, deadline, resp, nreq, durable, hv, clients, rooms, hubpc, rpc,
                   conn, send, closed, crooms, cur, bframe, todo, got, victim, panicked>>

\* a coalescing loop that keeps only the frame it has just received
WriteCoalesceKeepsLast(c) ==
    /\ Running
    /\ wpc[c] = "coalesce"
    /\ wn[c] > 0
    /\ send[c] # <<>>
    /\ wbuf' = [wbuf EXCEPT ![c] = <<Head(send[c])>>]
    /\ send' = [send EXCEPT ![c] = Tail(@)]
    /\ wn' = [wn EXCEPT ![c] = @ - 1]
    /\ UNCHANGED <<uid, wire, deadline, resp, nreq, durable, hv, clients, rooms, hubpc, rpc, wpc,
                   conn, closed, crooms, cur, bframe, todo, got, victim, panicked>>

\* one iteration of the coalescing loop: w.Write(<-c.send)
WriteCoalesce(c) ==
    /\ Running
    /\ wpc[c] = "coalesce"
    /\ wn[c] > 0
    /\ send[c] # <<>>
    /\ wbuf' = [wbuf EXCEPT ![c] = Append(@, Head(send[c]))]
    /\ send' = [send EXCEPT ![c] = Tail(@)]
    /\ wn' = [wn EXCEPT ![c] = @ - 1]
    /\ UNCHANGED <<uid, wire, deadline, resp, nreq, durable, hv, clients, rooms, hubpc, rpc, wpc,
                   conn, closed, crooms, cur, bframe, todo, got, victim, panicked>>

\* the loop is over: w.Close() sends what was written into w as one websocket
\* message, or returns an error, on which writePump returns and closes the
\* socket
WriteFlush(c, ok) ==
    /\ Running
    /\ wpc[c] = "coalesce"
    /\ wn[c] = 0
    /\ wbuf' = [wbuf EXCEPT ![c] = <<>>]
    /\ IF ok
       THEN /\ wire' = [wire EXCEPT ![c] = @ \o wbuf[c]]
            /\ wpc' = [wpc EXCEPT ![c] = "run"]
            /\ UNCHANGED conn
       ELSE /\ wpc' = [wpc EXCEPT ![c] = "done"]
            /\ conn' = [conn EXCEPT ![c] = FALSE]
            /\ UNCHANGED wire
    /\ UNCHANGED <<uid, wn, deadline, resp, nreq, durable, hv, clients, rooms, hubpc, rpc,
                   send, closed, crooms, cur, bframe, todo, got, victim, panicked>>

\* ---- the read deadline -------------------------------------------------------

\* one tick of time passes for every connection whose read task is running
Tick ==
    /\ Running
    /\ \E c \in Clients : rpc[c] \in {"read", "dispatch"} /\ deadline[c] > 0
    /\ deadline' = [c \in Clients |->
                        IF rpc[c] \in {"read", "dispatch"} /\ deadline[c] > 0
                        THEN deadline[c] - 1 ELSE deadline[c]]
    /\ UNCHANGED <<uid, socket, resp, nreq, durable, hv, clients, rooms, hubpc, rpc, wpc, conn,
                   send, closed, crooms, cur, bframe, todo, got, victim, panicked>>

\* ReadMessage returns a well-formed envelope before the deadline
ReadInTime(c, t, r) == deadline[c] > 0 /\ ReadEnvelope(c, t, r)

\* inside ReadMessage a pong arrives before the deadline: the pong handler
\* sets the read deadline to now + pongWait
ReadPong(c) ==
    /\ Running
    /\ rpc[c] = "read"
    /\ conn[c]
    /\ deadline[c] > 0
    /\ deadline' = [deadline EXCEPT ![c] = PongWait]
    /\ UNCHANGED <<uid, socket, resp, nreq, durable, hv, clients, rooms, hubpc, rpc, wpc, conn,
                   send, closed, crooms, cur, bframe, todo, got, victim, panicked>>

\* ReadMessage returns the time-out error of an expired read deadline
ReadDeadline(c) == deadline[c] = 0 /\ ReadError(c)

\* ---- requests counted against a budget -----------------------------------

Admit == nreq < MaxRequests /\ nreq' = nreq + 1

\* readPump reads a join_room envelope, one of the MaxRequests admitted
ReadJoinRoom(c, r) == ReadMessage(c, "join_room", r) /\ Admit

\* controllers.CreateMessage called by the room's creator (a user that holds
\* no connection here, and a durable member for as long as the room has its
\* row), one of the MaxRequests admitted: the row is created and
\* websocket.BroadcastToRoom marshals the envelope and enters
\* hub.broadcastToRoom
CreateMessage(r) ==
    /\ Running
    /\ rpc[RestTask] = "idle"
    /\ r \in dbRooms
    /\ Admit
    /\ bframe' = [bframe EXCEPT ![RestTask] = [type |-> "message", room |-> r]]
    /\ rpc' = [rpc EXCEPT ![RestTask] = "bcast"]
    /\ todo' = [todo EXCEPT ![RestTask] = Members(rooms, r)]
    /\ got' = [got EXCEPT ![RestTask] = {}]
    /\ UNCHANGED <<uid, socket, deadline, resp, durable, hv, clients, rooms, hubpc, wpc, conn, send, closed, crooms, cur,
                   victim, panicked>>

\* ---- the tables of the database -------------------------------------------

\* users.username and users.tag: the unique index is on the pair, so two
\* users can share a username
Username(u) == (u + 1) \div 2
Tag(u) == u
Names == {0} \cup {Username(u) : u \in Users}      \* 0: a username no row has
Tags == {0} \cup {Tag(u) : u \in Users}           \* 0: a tag no row has

\* Client.userID: the user_id the connection was upgraded with
userID(c) == uid[c]

\* DB.Where("username = ?", n).First(&receiver): the row with the least id, 0
\* when there is none
FindUser(n) ==
    IF \E u \in Users : Username(u) = n
    THEN CHOOSE u \in Users : Username(u) = n /\ \A v \in Users : Username(v) = n => u <= v
    ELSE 0

\* DB.Where("room_id = ? AND receiver_id = ? AND status = 'pending'").First:
\* the id of the first such row, 0 when there is none
Pendings(tbl, r, u) ==
    {i \in 1..Len(tbl) : tbl[i].room = r /\ tbl[i].receiver = u /\ tbl[i].status = "pending"}

FindPending(tbl, r, u) ==
    IF Pendings(tbl, r, u) = {} THEN 0
    ELSE CHOOSE i \in Pendings(tbl, r, u) : \A j \in Pendings(tbl, r, u) : i <= j

\* controllers.DeleteRoom, called by the room's creator (a user that holds no
\* connection here): the memberships of the room and its row are deleted
DeleteRoom(r) ==
    /\ Running
    /\ r \in dbRooms
    /\ Admit
    /\ dbRooms' = dbRooms \ {r}
    /\ roomUsers' = {m \in roomUsers : m[1] # r}
    /\ UNCHANGED <<uid, socket, deadline, resp, clients, rooms, hubpc, rpc, wpc, conn, send, closed, crooms, cur,
                   bframe, todo, got, victim, invites, hv, panicked>>

\* ---- direct sends: client.send <- bytes ------------------------------------

\* the blocking send of frame f on d.send by the read task c, which then goes
\* on at nxt: it panics on a closed channel and waits while the buffer is full
chanSend(c, d, f, nxt) ==
    /\ Running
    /\ IF closed[d]
       THEN /\ panicked' = "send on closed channel"
            /\ UNCHANGED <<send, rpc, hv, cur>>
       ELSE /\ Len(send[d]) < SendCap
            /\ send' = [send EXCEPT ![d] = Append(@, f)]
            /\ rpc' = [rpc EXCEPT ![c] = nxt]
            /\ hv' = [hv EXCEPT ![c] = IF nxt = "read" THEN NoLocals ELSE @]
            /\ cur' = [cur EXCEPT ![c] = IF nxt = "read" THEN NoEnvelope ELSE @]
            /\ UNCHANGED panicked
    /\ UNCHANGED <<uid, socket, deadline, resp, nreq, durable, clients, rooms, hubpc, wpc, conn, closed, crooms,
                   bframe, todo, got, victim>>

\* sendErrorToClient, the last call of every failing path of the handlers
SendError(c) ==
    /\ rpc[c] = "err"
    /\ chanSend(c, c, [type |-> "error", room |-> 0], "read")

\* the handler moves from one of its steps to the next
goto(c, nxt, locals) ==
    /\ rpc' = [rpc EXCEPT ![c] = nxt]
    /\ hv' = [hv EXCEPT ![c] = locals]
    /\ UNCHANGED <<uid, socket, deadline, resp, nreq, clients, rooms, hubpc, wpc, conn, send, closed, cur,
                   bframe, todo, got, victim, panicked>>

\* the connections of user u that a range over h.clients can produce first:
\* the iteration order of a Go map is not specified
ClientsOf(u) == {d \in clients : userID(d) = u}

\* notifyUserOfInvite and notifyInviterOfRejection range over h.clients
\* without a lock while the hub task and the default branch of
\* broadcastToRoom write it; when such a write is under way the outcome is
\* the loop's result or the run time's abort
ClientsRace(c) ==
    \E d \in Clients \ {c} :
        \/ rpc[d] \in {"new", "evict"}
        \/ rpc[d] = "unreg" /\ d \in clients

NotifyRace(c) ==
    /\ Running
    /\ rpc[c] \in {"inv_notify", "rej_notify"}
    /\ ClientsRace(c)
    /\ panicked' = "concurrent map iteration and map write"
    /\ UNCHANGED <<uid, socket, deadline, resp, nreq, durable, hv, clients, rooms, hubpc, rpc, wpc, conn, send,
                   closed, crooms, cur, bframe, todo, got, victim>>

\* ---- readPump, the invite envelopes ---------------------------------------

\* readPump reads an invite_users envelope {room_id, username, tag}, one of
\* the MaxRequests admitted
ReadInviteUsers(c, r, n, t) ==
    /\ Running
    /\ rpc[c] = "read"
    /\ conn[c]
    /\ Admit
    /\ rpc' = [rpc EXCEPT ![c] = "dispatch"]
    /\ cur' = [cur EXCEPT ![c] = [type |-> "invite_users", room |-> r]]
    /\ hv' = [hv EXCEPT ![c] = [NoLocals EXCEPT !.username = n, !.tag = t]]
    /\ UNCHANGED <<uid, socket, deadline, resp, durable, clients, rooms, hubpc, wpc, conn, send, closed, crooms,
                   bframe, todo, got, victim, panicked>>

\* readPump reads accept_invite or reject_invite with a room id, one of the
\* MaxRequests admitted
ReadInviteReply(c, t, r) == ReadMessage(c, t, r) /\ Admit

\* ---- HandleInviteUsers ----------------------------------------------------

\* a HandleInviteUsers that refuses the invite when the table holds any
\* invite for the pair, whatever its status
HandleInviteUsersAnyInviteBlocks(c) ==
    /\ Running
    /\ rpc[c] = "dispatch"
    /\ cur[c].type = "invite_users"
    /\ LET r == cur[c].room
           u == FindUser(hv[c].username)
       IN IF \/ ~inRoom(c, r)
             \/ u = 0
             \/ <<r, u>> \in roomUsers
             \/ \E i \in 1..Len(invites) : invites[i].room = r /\ invites[i].receiver = u
             \/ r \notin dbRooms
          THEN goto(c, "err", hv[c])
          ELSE goto(c, "inv_create", [hv[c] EXCEPT !.receiver = u, !.room = r])
    /\ UNCHANGED <<durable, crooms>>

\* the checks before the invite is created: inRoom, the receiver's row, the
\* receiver's membership, a pending invite, the room's row
HandleInviteUsers(c) ==
    /\ Running
    /\ rpc[c] = "dispatch"
    /\ cur[c].type = "invite_users"
    /\ LET r == cur[c].room
           u == FindUser(hv[c].username)
       IN IF \/ ~inRoom(c, r)
             \/ u = 0
             \/ <<r, u>> \in roomUsers
             \/ FindPending(invites, r, u) # 0
             \/ r \notin dbRooms
          THEN goto(c, "err", hv[c])
          ELSE goto(c, "inv_create", [hv[c] EXCEPT !.receiver = u, !.room = r])
    /\ UNCHANGED <<durable, crooms>>

\* DB.Create(&invite)
InviteCreate(c) ==
    /\ Running
    /\ rpc[c] = "inv_create"
    /\ invites' = Append(invites, [room |-> hv[c].room, sender |-> userID(c),
                                   receiver |-> hv[c].receiver, status |-> "pending"])
    /\ goto(c, "inv_notify", [hv[c] EXCEPT !.invite = Len(invites) + 1])
    /\ UNCHANGED <<dbRooms, roomUsers, crooms>>

\* DB.Create(&invite) returns an error
InviteCreateError(c) ==
    /\ Running
    /\ rpc[c] = "inv_create"
    /\ goto(c, "err", hv[c])
    /\ UNCHANGED <<durable, crooms>>

\* notifyUserOfInvite: the range over h.clients
InviteNotify(c) ==
    /\ Running
    /\ rpc[c] = "inv_notify"
    /\ IF ClientsOf(hv[c].receiver) = {}
       THEN goto(c, "inv_confirm", hv[c])
       ELSE \E d \in ClientsOf(hv[c].receiver) :
                goto(c, "inv_send", [hv[c] EXCEPT !.target = d])
    /\ UNCHANGED <<durable, crooms>>

\* a notifyUserOfInvite without the break: the notification is sent on every
\* connection of the receiver that the range produces
InviteNotifySendAll(c) ==
    /\ Running
    /\ rpc[c] = "inv_send"
    /\ \A d \in ClientsOf(hv[c].receiver) : ~closed[d] /\ Len(send[d]) < SendCap
    /\ send' = [d \in Clients |->
                   IF d \in ClientsOf(hv[c].receiver)
                   THEN Append(send[d], [type |-> "invite_received", room |-> hv[c].room,
                                         invite |-> hv[c].invite,
                                         sender |-> Username(userID(c))])
                   ELSE send[d]]
    /\ rpc' = [rpc EXCEPT ![c] = "inv_confirm"]
    /\ UNCHANGED <<uid, socket, deadline, resp, nreq, durable, hv, clients, rooms, hubpc, wpc, conn,
                   closed, crooms, cur, bframe, todo, got, victim, panicked>>

\* notifyUserOfInvite: client.send <- notificationBytes
InviteNotifySend(c) ==
    /\ rpc[c] = "inv_send"
    /\ chanSend(c, hv[c].target,
                [type |-> "invite_received", room |-> hv[c].room, invite |-> hv[c].invite,
                 sender |-> Username(userID(c))],
                "inv_confirm")

\* sendInviteConfirmation
InviteConfirm(c) ==
    /\ rpc[c] = "inv_confirm"
    /\ chanSend(c, c,
                [type |-> "invite_sent", room |-> hv[c].room, invite |-> hv[c].invite,
                 receiver |-> hv[c].receiver],
                "read")

\* ---- HandleAcceptInvite ---------------------------------------------------

\* the lookup of the pending invite for (room, this user)
HandleAcceptInvite(c) ==
    /\ Running
    /\ rpc[c] = "dispatch"
    /\ cur[c].type = "accept_invite"
    /\ LET i == FindPending(invites, cur[c].room, userID(c))
       IN IF i = 0
          THEN goto(c, "err", hv[c])
          ELSE goto(c, "acc_save", [hv[c] EXCEPT !.invite = i, !.room = cur[c].room])
    /\ UNCHANGED <<durable, crooms>>

\* invite.Status = "accepted"; DB.Save(&invite)
AcceptSave(c) ==
    /\ Running
    /\ rpc[c] = "acc_save"
    /\ invites' = [invites EXCEPT ![hv[c].invite].status = "accepted"]
    /\ goto(c, "acc_member", hv[c])
    /\ UNCHANGED <<dbRooms, roomUsers, crooms>>

\* DB.Save(&invite) returns an error
AcceptSaveError(c) ==
    /\ Running
    /\ rpc[c] = "acc_save"
    /\ goto(c, "err", hv[c])
    /\ UNCHANGED <<durable, crooms>>

\* DB.Create(&roomUser), which fails on a pair the table already holds (the
\* primary key is the pair)
AcceptCreateMember(c) ==
    /\ Running
    /\ rpc[c] = "acc_member"
    /\ IF <<hv[c].room, userID(c)>> \in roomUsers
       THEN /\ goto(c, "err", hv[c])
            /\ UNCHANGED roomUsers
       ELSE /\ goto(c, "acc_join", hv[c])
            /\ roomUsers' = roomUsers \cup {<<hv[c].room, userID(c)>>}
    /\ UNCHANGED <<dbRooms, invites, crooms>>

\* a client.joinRoom that records the room in c.rooms and leaves the hub's
\* room index alone
AcceptJoinRoomSessionOnly(c) ==
    /\ Running
    /\ rpc[c] = "acc_join"
    /\ Readers = {}
    /\ crooms' = [crooms EXCEPT ![c] = @ \cup {hv[c].room}]
    /\ rpc' = [rpc EXCEPT ![c] = "acc_notify"]
    /\ UNCHANGED <<uid, socket, deadline, resp, nreq, durable, hv, clients, rooms, hubpc, wpc, conn, send,
                   closed, cur, bframe, todo, got, victim, panicked>>

\* client.joinRoom(roomID): Client.joinRoom and Hub.joinRoom
AcceptJoinRoom(c) ==
    /\ Running
    /\ rpc[c] = "acc_join"
    /\ Readers = {}
    /\ crooms' = [crooms EXCEPT ![c] = @ \cup {hv[c].room}]
    /\ rooms' = joinRoom(rooms, c, hv[c].room)
    /\ rpc' = [rpc EXCEPT ![c] = "acc_notify"]
    /\ UNCHANGED <<uid, socket, deadline, resp, nreq, durable, hv, clients, hubpc, wpc, conn, send,
                   closed, cur, bframe, todo, got, victim, panicked>>

\* the room is loaded for the confirmation (a room without a row loads as
\* the zero Room) and notifyRoomOfNewMember enters hub.broadcastToRoom
AcceptNotify(c) ==
    /\ Running
    /\ rpc[c] = "acc_notify"
    /\ LET r == hv[c].room
       IN /\ hv' = [hv EXCEPT ![c].room = IF r \in dbRooms THEN r ELSE 0]
          /\ bframe' = [bframe EXCEPT ![c] =
                           [type |-> "user_joined", room |-> r, user |-> userID(c)]]
          /\ todo' = [todo EXCEPT ![c] = Members(rooms, r)]
          /\ got' = [got EXCEPT ![c] = {}]
          /\ rpc' = [rpc EXCEPT ![c] = "bcast"]
    /\ UNCHANGED <<uid, socket, deadline, resp, nreq, durable, clients, rooms, hubpc, wpc, conn, send,
                   closed, crooms, cur, victim, panicked>>

\* DB.Create(&roomUser) returns an error
AcceptCreateMemberError(c) ==
    /\ Running
    /\ rpc[c] = "acc_member"
    /\ goto(c, "err", hv[c])
    /\ UNCHANGED <<durable, crooms>>

\* sendRoomJoinConfirmation
AcceptConfirm(c) ==
    /\ rpc[c] = "acc_confirm"
    /\ chanSend(c, c, [type |-> "room_joined", room |-> hv[c].room], "read")

\* ---- HandleRejectInvite ---------------------------------------------------

\* the lookup of the pending invite for (room, this user)
HandleRejectInvite(c) ==
    /\ Running
    /\ rpc[c] = "dispatch"
    /\ cur[c].type = "reject_invite"
    /\ LET i == FindPending(invites, cur[c].room, userID(c))
       IN IF i = 0
          THEN goto(c, "err", hv[c])
          ELSE goto(c, "rej_save", [hv[c] EXCEPT !.invite = i, !.room = cur[c].room])
    /\ UNCHANGED <<durable, crooms>>

\* invite.Status = "rejected"; DB.Save(&invite)
RejectSave(c) ==
    /\ Running
    /\ rpc[c] = "rej_save"
    /\ invites' = [invites EXCEPT ![hv[c].invite].status = "rejected"]
    /\ goto(c, "rej_notify", hv[c])
    /\ UNCHANGED <<dbRooms, roomUsers, crooms>>

\* DB.Save(&invite) returns an error
RejectSaveError(c) ==
    /\ Running
    /\ rpc[c] = "rej_save"
    /\ goto(c, "err", hv[c])
    /\ UNCHANGED <<durable, crooms>>

\* notifyInviterOfRejection: the range over h.clients
RejectNotify(c) ==
    /\ Running
    /\ rpc[c] = "rej_notify"
    /\ IF ClientsOf(invites[hv[c].invite].sender) = {}
       THEN goto(c, "rej_confirm", hv[c])
       ELSE \E d \in ClientsOf(invites[hv[c].invite].sender) :
                goto(c, "rej_send", [hv[c] EXCEPT !.target = d])
    /\ UNCHANGED <<durable, crooms>>

\* notifyInviterOfRejection: client.send <- notificationBytes
RejectNotifySend(c) ==
    /\ rpc[c] = "rej_send"
    /\ chanSend(c, hv[c].target,
                [type |-> "invite_rejected", room |-> hv[c].room, invite |-> hv[c].invite,
                 user |-> userID(c)],
                "rej_confirm")

\* sendRejectConfirmation
RejectConfirm(c) ==
    /\ rpc[c] = "rej_confirm"
    /\ chanSend(c, c,
                [type |-> "invite_rejected_confirmation", room |-> hv[c].room,
                 invite |-> hv[c].invite],
                "read")

\* ---- controllers.RespondToInvite (REST) --------------------------------------

\* the request of user u for invite i with action a, one of the MaxRequests
\* admitted: DB.Where("id = ? AND receiver_id = ? AND status = 'pending'")
\* finds the row, or the request is answered 404
RespondToInvite(u, i, a) ==
    /\ Running
    /\ resp.pc = "idle"
    /\ Admit
    /\ resp' = IF i <= Len(invites) /\ invites[i].receiver = u /\ invites[i].status = "pending"
               THEN [pc |-> "save", user |-> u, invite |-> i, action |-> a]
               ELSE resp
    /\ UNCHANGED <<uid, socket, deadline, durable, hv, clients, rooms, hubpc, rpc, wpc, conn, send,
                   closed, crooms, cur, bframe, todo, got, victim, panicked>>

\* invite.Status = "accepted" or "rejected"; DB.Save(&invite) writes the row
\* by its primary key
RespondSave(u) ==
    /\ Running
    /\ resp.pc = "save"
    /\ resp.user = u
    /\ invites' = [invites EXCEPT ![resp.invite].status =
                       IF resp.action = "accept" THEN "accepted" ELSE "rejected"]
    /\ resp' = IF resp.action = "accept" THEN [resp EXCEPT !.pc = "member"] ELSE NoResponse
    /\ UNCHANGED <<uid, socket, deadline, nreq, dbRooms, roomUsers, hv, clients, rooms, hubpc, rpc,
                   wpc, conn, send, closed, crooms, cur, bframe, todo, got, victim, panicked>>

\* DB.Create(&roomUser): the pair is in the table afterwards (created now, or
\* already there when the insert fails on the primary key); the request is
\* answered 200 or 500
RespondCreateMember(u) ==
    /\ Running
    /\ resp.pc = "member"
    /\ resp.user = u
    /\ roomUsers' = roomUsers \cup {<<invites[resp.invite].room, u>>}
    /\ resp' = NoResponse
    /\ UNCHANGED <<uid, socket, deadline, nreq, dbRooms, invites, hv, clients, rooms, hubpc, rpc,
                   wpc, conn, send, closed, crooms, cur, bframe, todo, got, victim, panicked>>

\* ---- specifications -------------------------------------------------------

\* the websocket side: the hub and the two pumps of every connection
Next ==
    \/ \E c \in Clients : HandleConnection(c)
    \/ \E c \in Clients : HubUnregister(c)
    \/ HubRemoveFromRooms
    \/ \E c \in Clients, t \in InboundTypes, r \in Rooms : ReadEnvelope(c, t, r)
    \/ \E c \in Clients : ReadError(c)
    \/ \E c \in Clients : HandleJoinRoom(c)
    \/ \E c \in Clients : HandleLeaveRoom(c)
    \/ \E c \in Clients : HandleMessageNotInRoom(c)
    \/ \E c \in Clients : HandleMessageSaveError(c)
    \/ \E c \in Clients : HandleMessage(c)
    \/ \E c \in Clients, d \in Clients : BroadcastSelect(c, d)
    \/ \E c \in Clients : BroadcastEvict(c)
    \/ \E c \in Clients : BroadcastEvictRace(c)
    \/ \E c \in Clients : BroadcastReturn(c)
    \/ \E c \in Clients, ok \in BOOLEAN : WriteFrame(c, ok)
    \/ \E c \in Clients : WriteClosed(c)
    \/ \E c \in Clients : WritePingError(c)

Spec == Init /\ [][Next]_vars

\* the registry operations alone: connections come and go, join and leave
NextRegistry ==
    \/ \E c \in Clients : HandleConnection(c)
    \/ \E c \in Clients : HubUnregister(c)
    \/ HubRemoveFromRooms
    \/ \E c \in Clients, t \in {"join_room", "leave_room"}, r \in Rooms :
           ReadEnvelope(c, t, r)
    \/ \E c \in Clients : ReadError(c)
    \/ \E c \in Clients : HandleJoinRoom(c)
    \/ \E c \in Clients : HandleLeaveRoom(c)

SpecRegistry == Init /\ [][NextRegistry]_vars

\* the read loop: the registry operations and frames that cannot be decoded
NextRead ==
    \/ \E c \in Clients : HandleConnection(c)
    \/ \E c \in Clients : HubUnregister(c)
    \/ HubRemoveFromRooms
    \/ \E c \in Clients, t \in {"join_room", "leave_room"}, r \in Rooms :
           ReadEnvelope(c, t, r)
    \/ \E c \in Clients : ReadMalformed(c)
    \/ \E c \in Clients : DropMalformed(c)
    \/ \E c \in Clients : ReadError(c)
    \/ \E c \in Clients : HandleJoinRoom(c)
    \/ \E c \in Clients : HandleLeaveRoom(c)

SpecRead == Init /\ [][NextRead]_vars

\* the read loop under its deadline: frames and pongs arrive while time passes
NextDeadline ==
    \/ \E c \in Clients : HandleConnection(c)
    \/ \E c \in Clients : HubUnregister(c)
    \/ HubRemoveFromRooms
    \/ Tick
    \/ \E c \in Clients, t \in {"join_room", "leave_room"}, r \in Rooms :
           ReadInTime(c, t, r)
    \/ \E c \in Clients : ReadPong(c)
    \/ \E c \in Clients : ReadDeadline(c)
    \/ \E c \in Clients : HandleJoinRoom(c)
    \/ \E c \in Clients : HandleLeaveRoom(c)

SpecDeadline == Init /\ [][NextDeadline]_vars

\* connections join rooms and go away while the REST handler broadcasts; at
\* most MaxRequests join_room envelopes and CreateMessage calls are admitted
NextTeardown ==
    \/ \E c \in Clients : HandleConnection(c)
    \/ \E c \in Clients : HubUnregister(c)
    \/ HubRemoveFromRooms
    \/ \E c \in Clients, r \in Rooms : ReadJoinRoom(c, r)
    \/ \E c \in Clients : ReadError(c)
    \/ \E c \in Clients : HandleJoinRoom(c)
    \/ \E r \in Rooms : CreateMessage(r)
    \/ \E d \in Clients : BroadcastSelect(RestTask, d)
    \/ BroadcastEvict(RestTask)
    \/ BroadcastReturn(RestTask)

SpecTeardown == Init /\ [][NextTeardown]_vars

\* the write loop frame by frame: connections join rooms and the REST handler
\* broadcasts to them while each writePump drains its queue; at most
\* MaxRequests join_room envelopes and CreateMessage calls are admitted
NextWrite ==
    \/ \E c \in Clients : HandleConnection(c)
    \/ \E c \in Clients, r \in Rooms : ReadJoinRoom(c, r)
    \/ \E c \in Clients : HandleJoinRoom(c)
    \/ \E r \in Rooms : CreateMessage(r)
    \/ \E d \in Clients : BroadcastSelect(RestTask, d)
    \/ BroadcastEvict(RestTask)
    \/ BroadcastReturn(RestTask)
    \/ \E c \in Clients : WriteReceive(c)
    \/ \E c \in Clients : WriteNextWriterError(c)
    \/ \E c \in Clients : WriteLen(c)
    \/ \E c \in Clients : WriteCoalesce(c)
    \/ \E c \in Clients, ok \in BOOLEAN : WriteFlush(c, ok)
    \/ \E c \in Clients : WriteClosed(c)

SpecWrite == Init /\ [][NextWrite]_vars

\* SpecTeardown with the scheduling of the Go run time: a goroutine that can
\* take a step takes it (the hub task, a broadcaster inside broadcastToRoom,
\* a read task inside its handler), and the hub's select serves every client
\* that waits on h.unregister
FairTeardown ==
    /\ \A c \in Clients : WF_vars(HubUnregister(c))
    /\ WF_vars(HubRemoveFromRooms)
    /\ \A c \in Clients : WF_vars(HandleJoinRoom(c))
    /\ WF_vars(\E d \in Clients : BroadcastSelect(RestTask, d))
    /\ WF_vars(BroadcastEvict(RestTask))
    /\ WF_vars(BroadcastReturn(RestTask))

SpecTeardownFair == Init /\ [][NextTeardown]_vars /\ FairTeardown

\* ReadMessage on a socket that writePump has closed returns an error
ReadClosedSocket(c) == ~conn[c] /\ ReadError(c)

\* a connection whose requests are answered on its own queue while its write
\* loop drains the queue and may fail: join_room, and accept_invite and
\* reject_invite for rooms without a pending invite; at most MaxRequests
\* envelopes are admitted
NextReply ==
    \/ \E c \in Clients : HandleConnection(c)
    \/ \E c \in Clients : HubUnregister(c)
    \/ HubRemoveFromRooms
    \/ \E c \in Clients : ReadError(c)
    \/ \E c \in Clients, r \in Rooms : ReadJoinRoom(c, r)
    \/ \E c \in Clients, t \in {"accept_invite", "reject_invite"}, r \in Rooms :
           ReadInviteReply(c, t, r)
    \/ \E c \in Clients : HandleJoinRoom(c)
    \/ \E c \in Clients : HandleAcceptInvite(c)
    \/ \E c \in Clients : HandleRejectInvite(c)
    \/ \E c \in Clients : SendError(c)
    \/ \E c \in Clients : WriteReceive(c)
    \/ \E c \in Clients : WriteNextWriterError(c)
    \/ \E c \in Clients : WriteLen(c)
    \/ \E c \in Clients : WriteCoalesce(c)
    \/ \E c \in Clients, ok \in BOOLEAN : WriteFlush(c, ok)
    \/ \E c \in Clients : WriteClosed(c)
    \/ \E c \in Clients : WritePingError(c)

\* the scheduling of the Go run time: every goroutine that can take a step
\* takes it; a send on a full channel and a receive from an empty one cannot
FairReply ==
    /\ WF_vars(HubRemoveFromRooms)
    /\ \A c \in Clients :
        /\ WF_vars(HubUnregister(c))
        /\ WF_vars(ReadClosedSocket(c))
        /\ WF_vars(HandleJoinRoom(c))
        /\ WF_vars(HandleAcceptInvite(c))
        /\ WF_vars(HandleRejectInvite(c))
        /\ WF_vars(SendError(c))
        /\ WF_vars(WriteReceive(c))
        /\ WF_vars(WriteLen(c))
        /\ WF_vars(WriteCoalesce(c))
        /\ WF_vars(\E ok \in BOOLEAN : WriteFlush(c, ok))
        /\ WF_vars(WriteClosed(c))

SpecReply == Init /\ [][NextReply]_vars /\ FairReply

\* the invite handshake: connections join rooms, invite, accept and reject
\* while the REST handlers broadcast messages and delete rooms; at most
\* MaxRequests envelopes and REST calls are admitted
NextInvite ==
    \/ \E c \in Clients : HandleConnection(c)
    \/ \E c \in Clients : HubUnregister(c)
    \/ HubRemoveFromRooms
    \/ \E c \in Clients : ReadError(c)
    \/ \E c \in Clients, r \in Rooms : ReadJoinRoom(c, r)
    \/ \E c \in Clients, r \in Rooms, n \in Names, t \in Tags : ReadInviteUsers(c, r, n, t)
    \/ \E c \in Clients, t \in {"accept_invite", "reject_invite"}, r \in Rooms :
           ReadInviteReply(c, t, r)
    \/ \E c \in Clients : HandleJoinRoom(c)
    \/ \E c \in Clients : HandleInviteUsers(c)
    \/ \E c \in Clients : InviteCreate(c)
    \/ \E c \in Clients : InviteCreateError(c)
    \/ \E c \in Clients : InviteNotify(c)
    \/ \E c \in Clients : InviteNotifySend(c)
    \/ \E c \in Clients : InviteConfirm(c)
    \/ \E c \in Clients : HandleAcceptInvite(c)
    \/ \E c \in Clients : AcceptSave(c)
    \/ \E c \in Clients : AcceptSaveError(c)
    \/ \E c \in Clients : AcceptCreateMember(c)
    \/ \E c \in Clients : AcceptJoinRoom(c)
    \/ \E c \in Clients : AcceptNotify(c)
    \/ \E c \in Clients : AcceptCreateMemberError(c)
    \/ \E c \in Clients : AcceptConfirm(c)
    \/ \E c \in Clients : HandleRejectInvite(c)
    \/ \E c \in Clients : RejectSave(c)
    \/ \E c \in Clients : RejectSaveError(c)
    \/ \E c \in Clients : RejectNotify(c)
    \/ \E c \in Clients : RejectNotifySend(c)
    \/ \E c \in Clients : RejectConfirm(c)
    \/ \E c \in Clients : SendError(c)
    \/ \E c \in Clients : NotifyRace(c)
    \/ \E r \in Rooms : CreateMessage(r)
    \/ \E r \in Rooms : DeleteRoom(r)
    \/ \E c \in Tasks, d \in Clients : BroadcastSelect(c, d)
    \/ \E c \in Tasks : BroadcastEvict(c)
    \/ \E c \in Tasks : BroadcastReturn(c)
    \/ \E c \in Clients : WriteFrame(c, TRUE)
    \/ \E c \in Clients : WriteClosed(c)

SpecInvite == Init /\ [][NextInvite]_vars

\* the invite handshake answered over the websocket and over REST at the
\* same time; at most MaxRequests envelopes and REST calls are admitted
NextRespond ==
    \/ \E c \in Clients : HandleConnection(c)
    \/ \E c \in Clients, r \in Rooms : ReadJoinRoom(c, r)
    \/ \E c \in Clients, r \in Rooms, n \in Names, t \in Tags : ReadInviteUsers(c, r, n, t)
    \/ \E c \in Clients, t \in {"accept_invite", "reject_invite"}, r \in Rooms :
           ReadInviteReply(c, t, r)
    \/ \E c \in Clients : HandleJoinRoom(c)
    \/ \E c \in Clients : HandleInviteUsers(c)
    \/ \E c \in Clients : InviteCreate(c)
    \/ \E c \in Clients : InviteNotify(c)
    \/ \E c \in Clients : InviteNotifySend(c)
    \/ \E c \in Clients : InviteConfirm(c)
    \/ \E c \in Clients : HandleAcceptInvite(c)
    \/ \E c \in Clients : AcceptSave(c)
    \/ \E c \in Clients : AcceptCreateMember(c)
    \/ \E c \in Clients : AcceptJoinRoom(c)
    \/ \E c \in Clients : AcceptNotify(c)
    \/ \E c \in Clients : AcceptConfirm(c)
    \/ \E c \in Clients : HandleRejectInvite(c)
    \/ \E c \in Clients : RejectSave(c)
    \/ \E c \in Clients : RejectNotify(c)
    \/ \E c \in Clients : RejectNotifySend(c)
    \/ \E c \in Clients : RejectConfirm(c)
    \/ \E c \in Clients : SendError(c)
    \/ \E u \in Users, i \in 1..MaxRequests, a \in {"accept", "reject"} :
           RespondToInvite(u, i, a)
    \/ \E u \in Users : RespondSave(u)
    \/ \E u \in Users : RespondCreateMember(u)
    \/ \E c \in Clients, d \in Clients : BroadcastSelect(c, d)
    \/ \E c \in Clients : BroadcastEvict(c)
    \/ \E c \in Clients : BroadcastReturn(c)
    \/ \E c \in Clients : WriteFrame(c, TRUE)
    \/ \E c \in Clients : WriteClosed(c)

SpecRespond == Init /\ [][NextRespond]_vars

\* ---- room traffic of the clients -------------------------------------------

\* readPump reads a leave_room envelope, one of the MaxRequests admitted
ReadLeaveRoom(c, r) == ReadMessage(c, "leave_room", r) /\ Admit

\* readPump reads a message envelope for room r, one of the MaxRequests
\* admitted
ReadChatMessage(c, r) == ReadMessage(c, "message", r) /\ Admit

\* connections join and leave rooms and send messages to them while the REST
\* handler broadcasts too and every writePump drains its queue; at most
\* MaxRequests envelopes and CreateMessage calls are admitted
NextBroadcast ==
    \/ \E c \in Clients : HandleConnection(c)
    \/ \E c \in Clients, r \in Rooms : ReadJoinRoom(c, r)
    \/ \E c \in Clients, r \in Rooms : ReadLeaveRoom(c, r)
    \/ \E c \in Clients, r \in Rooms : ReadChatMessage(c, r)
    \/ \E c \in Clients : HandleJoinRoom(c)
    \/ \E c \in Clients : HandleLeaveRoom(c)
    \/ \E c \in Clients : HandleMessageNotInRoom(c)
    \/ \E c \in Clients : HandleMessage(c)
    \/ \E r \in Rooms : CreateMessage(r)
    \/ \E c \in Tasks, d \in Clients : BroadcastSelect(c, d)
    \/ \E c \in Tasks : BroadcastEvict(c)
    \/ \E c \in Tasks : BroadcastReturn(c)
    \/ \E c \in Clients : WriteFrame(c, TRUE)

SpecBroadcast == Init /\ [][NextBroadcast]_vars

\* ---- users with several connections ----------------------------------------

\* a connection opened with user_id = u, one of the MaxRequests admitted
HandleConnectionAs(c, u) == Upgrade(c, u) /\ Admit

\* the direct notifications of the invite handshake when a user can hold
\* several connections: every connection is opened with any user id, the
\* connections join rooms, invite a user by its handle and reject while every
\* writePump drains its queue; at most MaxRequests envelopes are admitted
NextDirect ==
    \/ \E c \in Clients, u \in Users : HandleConnectionAs(c, u)
    \/ \E c \in Clients : HubUnregister(c)
    \/ HubRemoveFromRooms
    \/ \E c \in Clients : ReadError(c)
    \/ \E c \in Clients, r \in Rooms : ReadJoinRoom(c, r)
    \/ \E c \in Clients, r \in Rooms, u \in Users :
           ReadInviteUsers(c, r, Username(u), Tag(u))
    \/ \E c \in Clients, r \in Rooms : ReadInviteReply(c, "reject_invite", r)
    \/ \E c \in Clients : HandleJoinRoom(c)
    \/ \E c \in Clients : HandleInviteUsers(c)
    \/ \E c \in Clients : InviteCreate(c)
    \/ \E c \in Clients : InviteNotify(c)
    \/ \E c \in Clients : InviteNotifySend(c)
    \/ \E c \in Clients : InviteConfirm(c)
    \/ \E c \in Clients : HandleRejectInvite(c)
    \/ \E c \in Clients : RejectSave(c)
    \/ \E c \in Clients : RejectNotify(c)
    \/ \E c \in Clients : RejectNotifySend(c)
    \/ \E c \in Clients : RejectConfirm(c)
    \/ \E c \in Clients : SendError(c)
    \/ \E c \in Clients : WriteFrame(c, TRUE)

SpecDirect == Init /\ [][NextDirect]_vars

\* ---- the accepted invite ----------------------------------------------------

\* writePump takes the head of the queue and writes it to the socket; how
\* the frames are grouped into websocket messages is left to SpecWrite
WriteToWire(c) ==
    /\ Running
    /\ wpc[c] = "run"
    /\ send[c] # <<>>
    /\ send' = [send EXCEPT ![c] = Tail(@)]
    /\ wire' = [wire EXCEPT ![c] = Append(@, Head(send[c]))]
    /\ UNCHANGED <<uid, wbuf, wn, deadline, resp, nreq, durable, hv, clients, rooms, hubpc, rpc, wpc,
                   conn, closed, crooms, cur, bframe, todo, got, victim, panicked>>

\* the process started over a database that holds one pending invite, left
\* by an earlier run: user u is invited to room r by the room's creator,
\* user 1
InitAccept ==
    /\ InitProcess
    /\ \E r \in Rooms, u \in Users :
           invites = <<[room |-> r, sender |-> 1, receiver |-> u, status |-> "pending"]>>

\* an invite is accepted: connections are opened with any user id, join
\* rooms and send accept_invite while every writePump writes its queue to
\* the socket; at most MaxRequests requests are admitted
NextAccept ==
    \/ \E c \in Clients, u \in Users : HandleConnectionAs(c, u)
    \/ \E c \in Clients, r \in Rooms : ReadJoinRoom(c, r)
    \/ \E c \in Clients, r \in Rooms : ReadInviteReply(c, "accept_invite", r)
    \/ \E c \in Clients : HandleJoinRoom(c)
    \/ \E c \in Clients : HandleAcceptInvite(c)
    \/ \E c \in Clients : AcceptSave(c)
    \/ \E c \in Clients : AcceptCreateMember(c)
    \/ \E c \in Clients : AcceptJoinRoom(c)
    \/ \E c \in Clients : AcceptNotify(c)
    \/ \E c \in Clients : AcceptConfirm(c)
    \/ \E c \in Clients : SendError(c)
    \/ \E c \in Clients, d \in Clients : BroadcastSelect(c, d)
    \/ \E c \in Clients : BroadcastEvict(c)
    \/ \E c \in Clients : BroadcastReturn(c)
    \/ \E c \in Clients : WriteToWire(c)
    \/ \E c \in Clients : WriteClosed(c)

SpecAccept == InitAccept /\ [][NextAccept]_vars

\* ---- invites after an answer --------------------------------------------------

\* controllers.UpdateRoom with a list of user ids, called by the room's
\* creator (a user that holds no connection here), one of the MaxRequests
\* admitted: the memberships of everybody else are deleted and one is
\* created for each user of the list
UpdateRoom(r, ids) ==
    /\ Running
    /\ r \in dbRooms
    /\ Admit
    /\ roomUsers' = {m \in roomUsers : m[1] # r} \cup {<<r, u>> : u \in ids}
    /\ UNCHANGED <<uid, socket, deadline, resp, clients, rooms, hubpc, rpc, wpc, conn, send, closed,
                   crooms, cur, bframe, todo, got, victim, dbRooms, invites, hv, panicked>>

\* the invite handshake over a database that holds a pending invite: every
\* user opens its connection, joins rooms, accepts or rejects, and invites a
\* user by its handle, while the room's creator removes the other members
\* of the room over REST; at most MaxRequests requests are admitted
NextReinvite ==
    \/ \E c \in Clients : HandleConnectionAs(c, c)
    \/ \E c \in Clients, r \in Rooms : ReadJoinRoom(c, r)
    \/ \E c \in Clients, r \in Rooms, u \in Users :
           ReadInviteUsers(c, r, Username(u), Tag(u))
    \/ \E c \in Clients, t \in {"accept_invite", "reject_invite"}, r \in Rooms :
           ReadInviteReply(c, t, r)
    \/ \E c \in Clients : HandleJoinRoom(c)
    \/ \E c \in Clients : HandleInviteUsers(c)
    \/ \E c \in Clients : InviteCreate(c)
    \/ \E c \in Clients : InviteNotify(c)
    \/ \E c \in Clients : InviteNotifySend(c)
    \/ \E c \in Clients : InviteConfirm(c)
    \/ \E c \in Clients : HandleAcceptInvite(c)
    \/ \E c \in Clients : AcceptSave(c)
    \/ \E c \in Clients : AcceptCreateMember(c)
    \/ \E c \in Clients : AcceptJoinRoom(c)
    \/ \E c \in Clients : AcceptNotify(c)
    \/ \E c \in Clients : AcceptConfirm(c)
    \/ \E c \in Clients : HandleRejectInvite(c)
    \/ \E c \in Clients : RejectSave(c)
    \/ \E c \in Clients : RejectNotify(c)
    \/ \E c \in Clients : RejectNotifySend(c)
    \/ \E c \in Clients : RejectConfirm(c)
    \/ \E c \in Clients : SendError(c)
    \/ \E r \in Rooms : UpdateRoom(r, {})
    \/ \E c \in Clients, d \in Clients : BroadcastSelect(c, d)
    \/ \E c \in Clients : BroadcastEvict(c)
    \/ \E c \in Clients : BroadcastReturn(c)
    \/ \E c \in Clients : WriteFrame(c, TRUE)

SpecReinvite == InitAccept /\ [][NextReinvite]_vars

\* ---- controllers.CreateMessage (REST) ------------------------------------------

\* a CreateMessage that does not look at room_users
CreateMessageAsUnchecked(u, r) ==
    /\ Running
    /\ rpc[RestTask] = "idle"
    /\ Admit
    /\ rpc' = [rpc EXCEPT ![RestTask] = "msg_create"]
    /\ bframe' = [bframe EXCEPT ![RestTask] = [type |-> "message", room |-> r, user |-> u]]
    /\ UNCHANGED <<uid, socket, deadline, resp, durable, hv, clients, rooms, hubpc, wpc, conn, send,
                   closed, crooms, cur, todo, got, victim, panicked>>

\* the request of user u for room r, one of the MaxRequests admitted:
\* DB.Where("room_id = ? AND user_id = ?").First(&roomUser) finds the
\* sender's membership, or the request is answered 403
CreateMessageAs(u, r) ==
    /\ Running
    /\ rpc[RestTask] = "idle"
    /\ Admit
    /\ IF <<r, u>> \in roomUsers
       THEN /\ rpc' = [rpc EXCEPT ![RestTask] = "msg_create"]
            /\ bframe' = [bframe EXCEPT ![RestTask] =
                             [type |-> "message", room |-> r, user |-> u]]
       ELSE UNCHANGED <<rpc, bframe>>
    /\ UNCHANGED <<uid, socket, deadline, resp, durable, hv, clients, rooms, hubpc, wpc, conn, send,
                   closed, crooms, cur, todo, got, victim, panicked>>

\* DB.Create(&message), then websocket.BroadcastToRoom marshals the envelope
\* and enters hub.broadcastToRoom
CreateMessageSave ==
    /\ Running
    /\ rpc[RestTask] = "msg_create"
    /\ rpc' = [rpc EXCEPT ![RestTask] = "bcast"]
    /\ todo' = [todo EXCEPT ![RestTask] = Members(rooms, bframe[RestTask].room)]
    /\ got' = [got EXCEPT ![RestTask] = {}]
    /\ UNCHANGED <<uid, socket, deadline, resp, nreq, durable, hv, clients, rooms, hubpc, wpc, conn, send,
                   closed, crooms, cur, bframe, victim, panicked>>

\* DB.Create(&message) returns an error: the request is answered 500
CreateMessageSaveError ==
    /\ Running
    /\ rpc[RestTask] = "msg_create"
    /\ rpc' = [rpc EXCEPT ![RestTask] = "idle"]
    /\ bframe' = [bframe EXCEPT ![RestTask] = NoFrame]
    /\ UNCHANGED <<uid, socket, deadline, resp, nreq, durable, hv, clients, rooms, hubpc, wpc, conn, send,
                   closed, crooms, cur, todo, got, victim, panicked>>

\* messages posted over REST: the room's creator makes a user the member of
\* a room, users open connections and join rooms in their sessions, and any
\* user posts to any room while every writePump drains its queue; at most
\* MaxRequests requests are admitted
NextPost ==
    \/ \E c \in Clients : HandleConnection(c)
    \/ \E c \in Clients, r \in Rooms : ReadJoinRoom(c, r)
    \/ \E c \in Clients : HandleJoinRoom(c)
    \/ \E r \in Rooms, u \in Users : UpdateRoom(r, {u})
    \/ \E u \in Users, r \in Rooms : CreateMessageAs(u, r)
    \/ CreateMessageSave
    \/ CreateMessageSaveError
    \/ \E d \in Clients : BroadcastSelect(RestTask, d)
    \/ BroadcastEvict(RestTask)
    \/ BroadcastReturn(RestTask)
    \/ \E c \in Clients : WriteFrame(c, TRUE)

SpecPost == Init /\ [][NextPost]_vars

\* ---- HandleConnection step by step ------------------------------------------

\* strconv.ParseUint(s, 10, 32) on a query parameter or a payload string: the
\* string is absent or empty, holds something that is no decimal number, or
\* holds the decimal digits of value
MaxUint == 2^UintBits - 1

NumberStrings ==
    {[kind |-> "empty", value |-> 0], [kind |-> "text", value |-> 0]}
        \cup {[kind |-> "digits", value |-> n] : n \in Users \cup {0, MaxUint + 1}}

ParseUint(s) ==
    IF s.kind = "digits" /\ s.value <= MaxUint
    THEN [ok |-> TRUE, value |-> s.value]
    ELSE [ok |-> FALSE, value |-> 0]

\* a HandleConnection that upgrades whatever user_id holds
HandleConnectionRequestUnchecked(c, s) ==
    /\ Running
    /\ rpc[c] = "new"
    /\ Admit
    /\ uid' = [uid EXCEPT ![c] = ParseUint(s).value]
    /\ conn' = [conn EXCEPT ![c] = TRUE]
    /\ rpc' = [rpc EXCEPT ![c] = "register"]
    /\ UNCHANGED <<socket, deadline, resp, durable, hv, clients, rooms, hubpc, wpc, send, closed,
                   crooms, cur, bframe, todo, got, victim, panicked>>

\* HandleConnection up to hub.register <- client, one of the MaxRequests
\* admitted: a request without user_id, or with one that ParseUint refuses,
\* is answered 400; otherwise the connection is upgraded, the Client is
\* built and the handler waits for the hub to receive it
HandleConnectionRequest(c, s) ==
    /\ Running
    /\ rpc[c] = "new"
    /\ Admit
    /\ IF ParseUint(s).ok
       THEN /\ uid' = [uid EXCEPT ![c] = ParseUint(s).value]
            /\ conn' = [conn EXCEPT ![c] = TRUE]
            /\ rpc' = [rpc EXCEPT ![c] = "register"]
       ELSE UNCHANGED <<uid, conn, rpc>>
    /\ UNCHANGED <<socket, deadline, resp, durable, hv, clients, rooms, hubpc, wpc, send, closed,
                   crooms, cur, bframe, todo, got, victim, panicked>>

\* Hub.Run, case client := <-h.register: the receive on the unbuffered
\* channel, which lets HandleConnection go on
HubRegisterReceive(c) ==
    /\ Running
    /\ rpc[c] = "register"
    /\ hubpc[1] = "select"
    /\ hubpc' = <<"register", c>>
    /\ rpc' = [rpc EXCEPT ![c] = "start"]
    /\ UNCHANGED <<uid, socket, deadline, resp, nreq, durable, hv, clients, rooms, wpc, conn, send, closed,
                   crooms, cur, bframe, todo, got, victim, panicked>>

\* Hub.Run, register case: h.clients[client] = true
HubRegister ==
    /\ Running
    /\ hubpc[1] = "register"
    /\ clients' = clients \cup {hubpc[2]}
    /\ hubpc' = <<"select", 0>>
    /\ UNCHANGED <<uid, socket, deadline, resp, nreq, durable, hv, rooms, rpc, wpc, conn, send, closed,
                   crooms, cur, bframe, todo, got, victim, panicked>>

\* HandleConnection: go client.readPump(); go client.writePump()
StartPumps(c) ==
    /\ Running
    /\ rpc[c] = "start"
    /\ rpc' = [rpc EXCEPT ![c] = "read"]
    /\ wpc' = [wpc EXCEPT ![c] = "run"]
    /\ deadline' = [deadline EXCEPT ![c] = PongWait]
    /\ UNCHANGED <<uid, socket, resp, nreq, durable, hv, clients, rooms, hubpc, conn, send, closed,
                   crooms, cur, bframe, todo, got, victim, panicked>>

\* connections are requested with every kind of user_id, registered by the
\* hub task and started, and go away again; at most MaxRequests requests
\* are admitted
NextConnect ==
    \/ \E c \in Clients, s \in NumberStrings : HandleConnectionRequest(c, s)
    \/ \E c \in Clients : HubRegisterReceive(c)
    \/ HubRegister
    \/ \E c \in Clients : StartPumps(c)
    \/ \E c \in Clients : ReadError(c)
    \/ \E c \in Clients : HubUnregister(c)
    \/ HubRemoveFromRooms

SpecConnect == Init /\ [][NextConnect]_vars

\* ---- HandleIncomingMessage, the payload ----------------------------------------

\* Message.Payload after json.Unmarshal: a string (empty, no number, or the
\* digits of a room id), or a value of another JSON type
Payloads ==
    {[kind |-> k, value |-> 0] : k \in {"empty", "text", "object"}}
        \cup {[kind |-> "digits", value |-> r] : r \in Rooms}
IsString(p) == p.kind \in {"empty", "text", "digits"}

\* the types whose case asserts msg.Payload.(string)
StringPayloadTypes == {"join_room", "leave_room", "accept_invite", "reject_invite"}
\* "ping" stands for every type the switch has no case for
PayloadEnvelopeTypes == StringPayloadTypes \cup {"ping"}

\* parseRoomID: 0 when ParseUint returns an error
parseRoomID(s) == IF ParseUint(s).ok THEN ParseUint(s).value ELSE 0

\* readPump reads an envelope of type t with payload p, one of the
\* MaxRequests admitted
ReadPayload(c, t, p) ==
    /\ Running
    /\ rpc[c] = "read"
    /\ conn[c]
    /\ Admit
    /\ rpc' = [rpc EXCEPT ![c] = "decode"]
    /\ cur' = [cur EXCEPT ![c] = [type |-> t, room |-> 0, payload |-> p]]
    /\ UNCHANGED <<uid, socket, deadline, resp, durable, hv, clients, rooms, hubpc, wpc, conn, send, closed,
                   crooms, bframe, todo, got, victim, panicked>>

\* a switch that takes a payload of any JSON type for a room id string
DispatchAnyPayload(c) ==
    /\ Running
    /\ rpc[c] = "decode"
    /\ IF cur[c].type \in StringPayloadTypes
       THEN /\ rpc' = [rpc EXCEPT ![c] = "dispatch"]
            /\ cur' = [cur EXCEPT ![c] = [type |-> cur[c].type,
                                          room |-> parseRoomID(cur[c].payload)]]
       ELSE /\ rpc' = [rpc EXCEPT ![c] = "read"]
            /\ cur' = [cur EXCEPT ![c] = NoEnvelope]
    /\ UNCHANGED <<uid, socket, deadline, resp, nreq, durable, hv, clients, rooms, hubpc, wpc, conn, send,
                   closed, crooms, bframe, todo, got, victim, panicked>>

\* a switch that drops an envelope whose room id string does not parse
DispatchDropsBadRoomId(c) ==
    /\ Running
    /\ rpc[c] = "decode"
    /\ IF /\ cur[c].type \in StringPayloadTypes
          /\ IsString(cur[c].payload)
          /\ ParseUint(cur[c].payload).ok
       THEN /\ rpc' = [rpc EXCEPT ![c] = "dispatch"]
            /\ cur' = [cur EXCEPT ![c] = [type |-> cur[c].type,
                                          room |-> parseRoomID(cur[c].payload)]]
       ELSE /\ rpc' = [rpc EXCEPT ![c] = "read"]
            /\ cur' = [cur EXCEPT ![c] = NoEnvelope]
    /\ UNCHANGED <<uid, socket, deadline, resp, nreq, durable, hv, clients, rooms, hubpc, wpc, conn, send,
                   closed, crooms, bframe, todo, got, victim, panicked>>

\* HandleIncomingMessage, the switch on msg.Type and the type assertion of
\* the payload: a case with a string payload goes on with parseRoomID of
\* the string, everything else falls out of the switch
Dispatch(c) ==
    /\ Running
    /\ rpc[c] = "decode"
    /\ IF cur[c].type \in StringPayloadTypes /\ IsString(cur[c].payload)
       THEN /\ rpc' = [rpc EXCEPT ![c] = "dispatch"]
            /\ cur' = [cur EXCEPT ![c] = [type |-> cur[c].type,
                                          room |-> parseRoomID(cur[c].payload)]]
       ELSE /\ rpc' = [rpc EXCEPT ![c] = "read"]
            /\ cur' = [cur EXCEPT ![c] = NoEnvelope]
    /\ UNCHANGED <<uid, socket, deadline, resp, nreq, durable, hv, clients, rooms, hubpc, wpc, conn, send,
                   closed, crooms, bframe, todo, got, victim, panicked>>

\* envelopes with every kind of payload, over a database that holds a
\* pending invite: every user opens its connection and sends join_room,
\* leave_room, accept_invite, reject_invite and envelopes of an unknown type
\* while every writePump drains its queue; at most MaxRequests requests are
\* admitted
NextPayload ==
    \/ \E c \in Clients : HandleConnectionAs(c, c)
    \/ \E c \in Clients, t \in PayloadEnvelopeTypes, p \in Payloads : ReadPayload(c, t, p)
    \/ \E c \in Clients : Dispatch(c)
    \/ \E c \in Clients : HandleJoinRoom(c)
    \/ \E c \in Clients : HandleLeaveRoom(c)
    \/ \E c \in Clients : HandleAcceptInvite(c)
    \/ \E c \in Clients : AcceptSave(c)
    \/ \E c \in Clients : AcceptCreateMember(c)
    \/ \E c \in Clients : AcceptJoinRoom(c)
    \/ \E c \in Clients : AcceptNotify(c)
    \/ \E c \in Clients : AcceptConfirm(c)
    \/ \E c \in Clients : HandleRejectInvite(c)
    \/ \E c \in Clients : RejectSave(c)
    \/ \E c \in Clients : RejectNotify(c)
    \/ \E c \in Clients : RejectNotifySend(c)
    \/ \E c \in Clients : RejectConfirm(c)
    \/ \E c \in Clients : SendError(c)
    \/ \E c \in Clients, d \in Clients : BroadcastSelect(c, d)
    \/ \E c \in Clients : BroadcastEvict(c)
    \/ \E c \in Clients : BroadcastReturn(c)
    \/ \E c \in Clients : WriteFrame(c, TRUE)

\* the process started over a database whose one invite is pending for the
\* user with the highest id, to room 1, from the room's creator
InitInvited ==
    /\ InitProcess
    /\ invites = <<[room |-> 1, sender |-> 1, receiver |-> NumClients, status |-> "pending"]>>

SpecPayload == InitInvited /\ [][NextPayload]_vars

\* over a database that holds a pending invite, every user opens its
\* connection, joins rooms, accepts the invite (which makes it a durable
\* member and a member in its session), leaves rooms and loses its
\* connection, while every writePump drains its queue; at most MaxRequests
\* requests are admitted
NextLeave ==
    \/ \E c \in Clients : HandleConnectionAs(c, c)
    \/ \E c \in Clients : HubUnregister(c)
    \/ HubRemoveFromRooms
    \/ \E c \in Clients : ReadError(c)
    \/ \E c \in Clients, r \in Rooms : ReadJoinRoom(c, r)
    \/ \E c \in Clients, r \in Rooms : ReadLeaveRoom(c, r)
    \/ \E c \in Clients, r \in Rooms : ReadInviteReply(c, "accept_invite", r)
    \/ \E c \in Clients : HandleJoinRoom(c)
    \/ \E c \in Clients : HandleLeaveRoom(c)
    \/ \E c \in Clients : HandleAcceptInvite(c)
    \/ \E c \in Clients : AcceptSave(c)
    \/ \E c \in Clients : AcceptCreateMember(c)
    \/ \E c \in Clients : AcceptJoinRoom(c)
    \/ \E c \in Clients : AcceptNotify(c)
    \/ \E c \in Clients : AcceptConfirm(c)
    \/ \E c \in Clients : SendError(c)
    \/ \E c \in Clients, d \in Clients : BroadcastSelect(c, d)
    \/ \E c \in Clients : BroadcastEvict(c)
    \/ \E c \in Clients : BroadcastReturn(c)
    \/ \E c \in Clients : WriteToWire(c)
    \/ \E c \in Clients : WriteClosed(c)

SpecLeave == InitAccept /\ [][NextLeave]_vars

TypeOK ==
    /\ clients \subseteq Clients
    /\ DOMAIN rooms \subseteq Rooms \cup {0}
    /\ \A r \in DOMAIN rooms : rooms[r] \subseteq Clients
    /\ \A c \in Clients : Len(send[c]) <= SendCap
    /\ nreq \in 0..MaxRequests
    /\ dbRooms \subseteq Rooms
    /\ roomUsers \subseteq Rooms \X Users
    /\ \A i \in 1..Len(invites) : invites[i].status \in {"pending", "accepted", "rejected"}
    /\ \A c \in Clients : wn[c] \in 0..SendCap /\ deadline[c] \in 0..PongWait

\* ---- claims ---------------------------------------------------------------

ErrorFrame == [type |-> "error", room |-> 0]
InAnyRoom(c) == \E r \in DOMAIN rooms : c \in rooms[r]

\* C1: a 'message' from a connection that joined room R and has not left it is
\* saved and then enqueued on the outbound queue of every connection in R's
\* member set: when broadcastToRoom has no member left to visit, or the process
\* has stopped, every member of R has been given the frame.
C1_MessageReachesEveryMember ==
    \A c \in Clients :
        (/\ rpc[c] = "bcast"
         /\ bframe[c].type = "message"
         /\ (Pending(c) = {} \/ ~Running))
        => Members(rooms, bframe[c].room) \subseteq got[c]

\* C2: a 'message' for a room the connection is not a session member of is
\* answered with an 'error' envelope on that connection, enqueues nothing on any
\* other connection and saves nothing (broadcastToRoom is not entered).
C2_NotInRoomYieldsError ==
    [][\A c \in Clients :
        (/\ rpc[c] = "dispatch"
         /\ cur[c].type = "message"
         /\ ~inRoom(c, cur[c].room)
         /\ rpc'[c] # "dispatch")
        => /\ send'[c] = Append(send[c], ErrorFrame)
           /\ \A d \in Clients \ {c} : send'[d] = send[d]
           /\ rpc'[c] = "read"]_vars

\* C3: a broadcaster whose select found a member's queue full does not block
\* and does not fail: its next step removes that member from the live set and
\* it goes on with the remaining members.
C3_OverflowTerminatesWithoutStall ==
    [][\A c \in Clients :
        BroadcastEvict(c)
        => /\ victim[c] \notin clients'
           /\ closed'[victim[c]]
           /\ rpc'[c] = "bcast"
           /\ todo'[c] = todo[c] \ {victim[c]}
           /\ panicked' = "none"]_vars

\* C4: once a connection's outbound queue is closed and the hub is not in the
\* middle of unregistering it, the connection is in the live set no more and in
\* no room's member set.
C4_TeardownLeavesNoMembership ==
    \A c \in Clients :
        (closed[c] /\ hubpc # <<"rooms", c>>)
        => (c \notin clients /\ ~InAnyRoom(c))

\* C5: the hub's unregistration of a live connection leaves it in no room's
\* member set and drops every room it was the last member of; a broadcast to a
\* room that has no entry enqueues nothing and returns without a panic.
C5_UnregisterClearsRooms ==
    [][/\ HubRemoveFromRooms
          => /\ hubpc[2] \notin clients'
             /\ \A r \in DOMAIN rooms' : hubpc[2] \notin rooms'[r]
             /\ \A r \in DOMAIN rooms : rooms[r] = {hubpc[2]} => r \notin DOMAIN rooms'
       /\ \A c \in Tasks :
            (/\ rpc[c] = "bcast"
             /\ bframe[c].room \notin DOMAIN rooms
             /\ rpc'[c] # "bcast")
            => (rpc'[c] \in {"read", "idle"} /\ send' = send /\ panicked' = "none" /\ got[c] = {})]_vars

\* a room was dropped by the hub's unregistration of d, and c then broadcast to it
C5_Witness ==
    \E c \in Tasks, d \in Clients :
        /\ rpc[c] = "bcast"
        /\ bframe[c].room \notin DOMAIN rooms
        /\ rpc[d] = "done"
        /\ hubpc[1] = "select"
        /\ d \notin clients
        /\ bframe[c].room \in crooms[d]

\* C6: every member of a room's member set joined that room in its session and
\* is in the live set.
C6_MembersAreLiveAndJoined ==
    \A r \in DOMAIN rooms : \A c \in rooms[r] : r \in crooms[c] /\ c \in clients

\* C7: the room index holds no room whose member set is empty.
C7_NoEmptyRoom ==
    \A r \in DOMAIN rooms : rooms[r] # {}

\* C8: join_room for a room the connection is already in, and leave_room for a
\* room it is not in, change no room's member set, not the live set, not the
\* session membership, and enqueue nothing (no error envelope).
C8_JoinLeaveIdempotent ==
    [][\A c \in Clients :
        /\ (HandleJoinRoom(c) /\ inRoom(c, cur[c].room) /\ c \in Members(rooms, cur[c].room))
           => /\ \A r \in Rooms : Members(rooms', r) = Members(rooms, r)
              /\ UNCHANGED <<clients, crooms, send, closed, panicked>>
        /\ (HandleLeaveRoom(c) /\ ~inRoom(c, cur[c].room))
           => /\ \A r \in Rooms : Members(rooms', r) = Members(rooms, r)
              /\ UNCHANGED <<clients, crooms, send, closed, panicked>>]_vars

\* one connection repeats a join while another leaves a room it never joined
\* and that has members
C8_Witness ==
    \E c \in Clients : \E d \in Clients \ {c} :
        /\ rpc[c] = "dispatch"
        /\ cur[c].type = "join_room"
        /\ inRoom(c, cur[c].room)
        /\ c \in Members(rooms, cur[c].room)
        /\ rpc[d] = "dispatch"
        /\ cur[d].type = "leave_room"
        /\ ~inRoom(d, cur[d].room)
        /\ Members(rooms, cur[d].room) # {}

\* C9: the live set is written only by the hub's own task, and the room index
\* only by a task that holds the write lock.
C9_SerializedMutation ==
    [][/\ clients' # clients => \E c \in Clients : HandleConnection(c) \/ HubUnregister(c)
       /\ rooms' # rooms =>
            \/ HubRemoveFromRooms
            \/ \E c \in Clients : HandleJoinRoom(c) \/ HandleLeaveRoom(c)]_vars

\* C10: a connection's outbound queue is closed at most once, whichever tasks
\* trigger its teardown: the second close of a channel is a run-time panic.
C10_ClosedAtMostOnce ==
    panicked # "close of closed channel"

\* C11: at most one invite with status pending exists for a (room, receiver)
\* pair, whatever senders invite the receiver at the same time.
C11_OnePendingPerPair ==
    \A r \in Rooms : \A u \in Users : Cardinality(Pendings(invites, r, u)) <= 1

\* the row of users with this username and this tag (the unique index
\* idx_username_tag), 0 when there is none
UserByHandle(n, t) ==
    IF \E u \in Users : Username(u) = n /\ Tag(u) = t
    THEN CHOOSE u \in Users : Username(u) = n /\ Tag(u) = t
    ELSE 0

\* the invite_users envelope connection c is dispatching is valid: c is a
\* session member of the room, the room exists, the user with the payload's
\* handle exists, is no durable member of the room and has no pending invite
ValidInvite(c) ==
    LET r == cur[c].room
        b == UserByHandle(hv[c].username, hv[c].tag)
    IN /\ rpc[c] = "dispatch"
       /\ cur[c].type = "invite_users"
       /\ inRoom(c, r)
       /\ r \in dbRooms
       /\ b # 0
       /\ <<r, b>> \notin roomUsers
       /\ Pendings(invites, r, b) = {}

\* C12: a valid invite_users from A for B passes the checks with B as the
\* receiver, the row (R, A, B, pending) is created, B's live connection, if
\* there is one, is given invite_received with R and A's username, and A is
\* given invite_sent with R and B's id.
C12_InviteCreatedAndAnnounced ==
    [][\A c \in Clients :
        /\ (ValidInvite(c) /\ HandleInviteUsers(c))
           => /\ rpc'[c] = "inv_create"
              /\ hv'[c].receiver = UserByHandle(hv[c].username, hv[c].tag)
        /\ InviteCreate(c)
           => invites' = Append(invites, [room |-> cur[c].room, sender |-> userID(c),
                                          receiver |-> hv[c].receiver, status |-> "pending"])
        /\ (InviteNotify(c) /\ \E d \in clients : userID(d) = hv[c].receiver)
           => /\ rpc'[c] = "inv_send"
              /\ userID(hv'[c].target) = hv[c].receiver
        /\ InviteNotifySend(c)
           => send'[hv[c].target] =
                  Append(send[hv[c].target],
                         [type |-> "invite_received", room |-> cur[c].room,
                          invite |-> hv[c].invite, sender |-> Username(userID(c))])
        /\ InviteConfirm(c)
           => send'[c] = Append(send[c], [type |-> "invite_sent", room |-> cur[c].room,
                                          invite |-> hv[c].invite,
                                          receiver |-> hv[c].receiver])]_vars

\* C13: the receiver of an invite is the user whose username and tag both
\* equal the payload's; when no user has that pair the request fails with an
\* error and no invite is created.
C13_ReceiverByHandle ==
    [][\A c \in Clients :
        /\ InviteCreate(c)
           => invites'[Len(invites')].receiver = UserByHandle(hv[c].username, hv[c].tag)
        /\ (/\ HandleInviteUsers(c)
            /\ UserByHandle(hv[c].username, hv[c].tag) = 0)
           => rpc'[c] = "err"]_vars

\* no connection of user u is in the live set
Offline(u) == \A d \in clients : userID(d) # u

\* C14: when the receiver of a created invite has no live connection, the
\* delivery to the receiver enqueues nothing and raises no error, the invite
\* stays pending, and the sender is given invite_sent.
C14_OfflineReceiverIsNoOp ==
    [][\A c \in Clients :
        /\ (/\ rpc[c] = "inv_notify"
            /\ Offline(hv[c].receiver)
            /\ (InviteNotify(c) \/ NotifyRace(c)))
           => /\ rpc'[c] = "inv_confirm"
              /\ send' = send
              /\ panicked' = "none"
              /\ invites'[hv[c].invite].status = "pending"
        /\ (InviteConfirm(c) /\ hv[c].target = 0)
           => /\ send'[c] = Append(send[c], [type |-> "invite_sent", room |-> hv[c].room,
                                             invite |-> hv[c].invite,
                                             receiver |-> hv[c].receiver])
              /\ panicked' = "none"]_vars

\* the invite_users envelope connection c is dispatching fails a precondition
\* (the receiver is the row the handler's own lookup returns)
InviteRefused(c) ==
    LET r == cur[c].room
        u == FindUser(hv[c].username)
    IN \/ ~inRoom(c, r)
       \/ u = 0
       \/ <<r, u>> \in roomUsers
       \/ Pendings(invites, r, u) # {}
       \/ r \notin dbRooms

\* C15: an invite_users that fails a precondition creates no invite, enqueues
\* exactly one 'error' envelope, on the originating connection, and leaves the
\* live set and the connection as they are.
C15_RefusedInviteYieldsOneError ==
    [][\A c \in Clients :
        /\ (HandleInviteUsers(c) /\ InviteRefused(c))
           => /\ rpc'[c] = "err"
              /\ UNCHANGED <<invites, roomUsers, send, clients, closed, panicked>>
        /\ (SendError(c) /\ cur[c].type = "invite_users")
           => /\ send'[c] = Append(send[c], ErrorFrame)
              /\ \A d \in Clients \ {c} : send'[d] = send[d]
              /\ rpc'[c] = "read"
              /\ UNCHANGED <<invites, roomUsers, clients, closed, panicked>>]_vars

\* C16: accept_invite with a pending invite for (R, B) marks the invite
\* accepted, creates the durable membership (R, B), makes B's connection a
\* session member of R, hands user_joined with R and B's id to every other
\* connection in R's member set, and gives B room_joined with room R.
C16_AcceptJoinsAndAnnounces ==
    [][\A c \in Clients :
        /\ AcceptSave(c)
           => invites'[hv[c].invite].status = "accepted"
        /\ AcceptCreateMember(c)
           => <<hv[c].room, userID(c)>> \in roomUsers'
        /\ AcceptJoinRoom(c)
           => /\ hv[c].room \in crooms'[c]
              /\ c \in Members(rooms', hv[c].room)
        /\ AcceptNotify(c)
           => bframe'[c] = [type |-> "user_joined", room |-> hv[c].room,
                            user |-> userID(c)]
        /\ (/\ bframe[c].type = "user_joined"
            /\ (BroadcastEvict(c) \/ \E d \in Clients : BroadcastSelect(c, d)))
           => panicked' = "none"
        /\ (bframe[c].type = "user_joined" /\ BroadcastReturn(c))
           => Members(rooms, bframe[c].room) \ {c} \subseteq got[c]
        /\ AcceptConfirm(c)
           => send'[c] = Append(send[c], [type |-> "room_joined",
                                          room |-> invites[hv[c].invite].room])]_vars

\* C17: when the invite has been marked accepted and the creation of the
\* durable membership fails, the acceptor is not session-joined, no
\* user_joined broadcast is started, nothing is enqueued but one 'error'
\* envelope on the acceptor's connection.
C17_FailedMembershipYieldsError ==
    [][\A c \in Clients :
        /\ (\/ AcceptCreateMemberError(c)
            \/ AcceptCreateMember(c) /\ <<hv[c].room, userID(c)>> \in roomUsers)
           => /\ rpc'[c] = "err"
              /\ UNCHANGED <<crooms, rooms, send, bframe, roomUsers, panicked>>
        /\ (/\ SendError(c)
            /\ cur[c].type = "accept_invite"
            /\ hv[c].invite # 0
            /\ invites[hv[c].invite].status = "accepted")
           => /\ send'[c] = Append(send[c], ErrorFrame)
              /\ \A d \in Clients \ {c} : send'[d] = send[d]
              /\ rpc'[c] = "read"
              /\ UNCHANGED <<crooms, rooms, bframe, roomUsers, panicked>>]_vars

\* C18: accept_invite or reject_invite without a pending invite for (room,
\* this user) changes no invite, no durable membership, no room's member set
\* and no session membership, and enqueues exactly one 'error' envelope, on
\* the originating connection.
C18_NoPendingInviteYieldsError ==
    [][\A c \in Clients :
        /\ (/\ HandleAcceptInvite(c) \/ HandleRejectInvite(c)
            /\ FindPending(invites, cur[c].room, userID(c)) = 0)
           => /\ rpc'[c] = "err"
              /\ UNCHANGED <<invites, roomUsers, rooms, crooms, clients, send, panicked>>
        /\ (/\ SendError(c)
            /\ cur[c].type \in {"accept_invite", "reject_invite"}
            /\ hv[c].invite = 0)
           => /\ send'[c] = Append(send[c], ErrorFrame)
              /\ \A d \in Clients \ {c} : send'[d] = send[d]
              /\ rpc'[c] = "read"
              /\ UNCHANGED <<invites, roomUsers, rooms, crooms, clients, panicked>>]_vars

\* C19: reject_invite with a pending invite for (R, B) marks the invite
\* rejected and creates no membership; the inviter's live connection, if
\* there is one, is given invite_rejected with the invite id, R and B's id,
\* and B is given invite_rejected_confirmation with the invite id and R.
C19_RejectMarksAndAnnounces ==
    [][\A c \in Clients :
        /\ RejectSave(c)
           => /\ invites'[hv[c].invite].status = "rejected"
              /\ UNCHANGED <<roomUsers, crooms, rooms>>
        /\ (RejectNotify(c) /\ ~Offline(invites[hv[c].invite].sender))
           => /\ rpc'[c] = "rej_send"
              /\ userID(hv'[c].target) = invites[hv[c].invite].sender
        /\ RejectNotifySend(c)
           => /\ send'[hv[c].target] =
                     Append(send[hv[c].target],
                            [type |-> "invite_rejected", room |-> cur[c].room,
                             invite |-> hv[c].invite, user |-> userID(c)])
              /\ UNCHANGED <<roomUsers, crooms, rooms>>
        /\ RejectConfirm(c)
           => /\ send'[c] = Append(send[c], [type |-> "invite_rejected_confirmation",
                                             room |-> cur[c].room,
                                             invite |-> hv[c].invite])
              /\ UNCHANGED <<roomUsers, crooms, rooms>>]_vars

\* the read task of c is at a direct send (client.send <- bytes)
AtDirectSend(c) ==
    rpc[c] \in {"err", "inv_send", "inv_confirm", "acc_confirm", "rej_send", "rej_confirm"}

DirectSend(c) ==
    \/ SendError(c)
    \/ InviteNotifySend(c)
    \/ InviteConfirm(c)
    \/ AcceptConfirm(c)
    \/ RejectNotifySend(c)
    \/ RejectConfirm(c)

\* C20: every enqueue on an outbound queue is non-blocking: a read task that
\* is at a direct send can always take its step, whatever the fill of the
\* target's queue.
C20_EnqueueNeverBlocks ==
    \A c \in Clients : (Running /\ AtDirectSend(c)) => ENABLED DirectSend(c)

\* what the peer of c has been or will be sent: the frames on the socket,
\* those in the open writer and those in the queue
Stream(c) == wire[c] \o wbuf[c] \o send[c]

\* C21: frames are written to a connection's socket in the order they were
\* enqueued, none lost, duplicated or reordered, also when the write loop
\* coalesces: as long as the write loop has not ended, the socket's frames
\* followed by those of the open writer and of the queue change only by a
\* frame added at the end; when the loop has ended nothing more is written.
C21_WrittenInEnqueueOrder ==
    [][\A c \in Clients :
        \/ wpc'[c] = "done" /\ wire'[c] = wire[c]
        \/ Stream(c)' = Stream(c)
        \/ /\ Len(Stream(c)') = Len(Stream(c)) + 1
           /\ SubSeq(Stream(c)', 1, Len(Stream(c))) = Stream(c)]_vars

\* the write loop has coalesced a second, different frame into the writer
\* after frames were already written to the socket or while more are queued
C21_Witness ==
    \E c \in Clients :
        /\ wpc[c] = "coalesce"
        /\ wn[c] = 0
        /\ Len(wbuf[c]) = 2
        /\ wbuf[c][1] # wbuf[c][2]

\* C22: an inbound frame that cannot be decoded as an envelope is dropped
\* without any state change: the connection stays in the live set and in its
\* rooms, its socket and queue stay open, nothing is enqueued or stored, and
\* the read task is back at reading the next frame with no envelope in hand.
C22_MalformedFrameDropped ==
    [][\A c \in Clients :
        (rpc[c] = "dispatch" /\ cur[c].type = "malformed" /\ rpc'[c] # "dispatch")
        => /\ rpc'[c] = "read"
           /\ cur'[c] = NoEnvelope
           /\ UNCHANGED <<clients, rooms, crooms, send, closed, conn, wpc, hubpc,
                          durable, panicked>>]_vars

\* a live connection that is a member of a room holds a frame it cannot
\* decode, while another connection is dispatching an envelope
C22_Witness ==
    \E c \in Clients : \E d \in Clients \ {c} :
        /\ rpc[c] = "dispatch"
        /\ cur[c].type = "malformed"
        /\ c \in clients
        /\ InAnyRoom(c)
        /\ conn[c]
        /\ rpc[d] = "dispatch"
        /\ cur[d].type = "join_room"

\* C23: after a read error or a read-deadline expiry the read loop ends and
\* the connection is eventually in the live set no more and in no room's
\* member set (unless the process has stopped), whatever state the
\* connection and its queue were in.
C23_ReadErrorLeadsToRemoval ==
    \A c \in Clients :
        (rpc[c] = "unreg") ~> (~Running \/ (c \notin clients /\ ~InAnyRoom(c)))

\* the write loop of c has ended on a failed write
WriteFailed(c) == wpc[c] = "done" /\ ~closed[c]

\* C24: after a write failure on a connection's socket the write loop has
\* ended and the connection is eventually unregistered, removed from the
\* live set and from every room (unless the process has stopped), also when
\* the read task is inside a handler that enqueues on the connection's own
\* queue.
C24_WriteFailureLeadsToUnregister ==
    \A c \in Clients :
        WriteFailed(c) ~> (~Running \/ (c \notin clients /\ ~InAnyRoom(c)))

\* C25: the read deadline of a connection is reset on each successful
\* inbound frame read as well as on each pong: after either, a full pongWait
\* is left until the deadline.
C25_DeadlineResetOnRead ==
    [][\A c \in Clients :
        /\ (\E t \in InboundTypes, r \in Rooms : ReadInTime(c, t, r))
           => deadline'[c] = PongWait
        /\ ReadPong(c) => deadline'[c] = PongWait]_vars

\* C26: when persisting a 'message' from a session member fails, the
\* initiating connection is given an 'error' envelope, nothing is broadcast
\* to the room, and the connection, the live set and the room index are as
\* before.
C26_SaveFailureYieldsError ==
    [][\A c \in Clients :
        HandleMessageSaveError(c)
        => /\ send'[c] = Append(send[c], ErrorFrame)
           /\ \A d \in Clients \ {c} : send'[d] = send[d]
           /\ rpc'[c] = "read"
           /\ UNCHANGED <<clients, rooms, conn, closed, crooms, panicked>>]_vars

\* C27: join_room has no precondition: whatever the durable memberships and
\* invites, the handling of a join_room envelope of a live connection puts
\* the connection into the room's member set and the room into its session
\* set, so that it passes the check that guards 'message', and enqueues
\* nothing; a broadcast to a room starts with every member to visit and
\* enqueues the frame on each member whose queue is open and has room.
C27_JoinRoomUnconditional ==
    [][/\ \A c \in Clients :
            (/\ rpc[c] = "dispatch"
             /\ cur[c].type = "join_room"
             /\ c \in clients
             /\ rpc'[c] # "dispatch")
            => /\ c \in Members(rooms', cur[c].room)
               /\ cur[c].room \in crooms'[c]
               /\ rpc'[c] = "read"
               /\ UNCHANGED <<send, clients, closed, durable, panicked>>
       /\ \A b \in Tasks :
            /\ (rpc[b] # "bcast" /\ rpc'[b] = "bcast" /\ rpc[b] # "evict")
               => Members(rooms, bframe'[b].room) \subseteq todo'[b]
            /\ \A d \in Clients :
                 (BroadcastSelect(b, d) /\ ~closed[d] /\ Len(send[d]) < SendCap)
                 => send'[d] = Append(send[d], bframe[b])]_vars

\* a live connection that is no durable member of a room and has no invite
\* joined it and has been given a frame broadcast to it, while another
\* connection is joining
C27_Witness ==
    \E c \in Clients : \E d \in Clients \ {c} : \E r \in Rooms :
        /\ c \in clients
        /\ c \in Members(rooms, r)
        /\ inRoom(c, r)
        /\ <<r, userID(c)>> \notin roomUsers
        /\ invites = <<>>
        /\ send[c] = <<[type |-> "message", room |-> r]>>
        /\ rpc[d] = "dispatch"
        /\ cur[d].type = "join_room"
        /\ d \in clients

\* C28: in no interleaving is a frame enqueued on an outbound queue that has
\* been closed: no broadcast and no direct delivery ends in the run-time
\* panic of a send on a closed channel.
C28_NoSendOnClosedQueue ==
    panicked # "send on closed channel"

\* C29: an invite's status changes only from pending to accepted or from
\* pending to rejected and is final thereafter, also when the websocket
\* handlers and REST RespondToInvite answer the same pending invite at the
\* same time; a durable membership exists only with an accepted invite of
\* its room and user.
C29_InviteStatusFinal ==
    [][/\ \A i \in 1..Len(invites) :
            invites'[i].status # invites[i].status
            => /\ invites[i].status = "pending"
               /\ invites'[i].status \in {"accepted", "rejected"}
       /\ \A m \in roomUsers' :
            \E i \in 1..Len(invites') :
                /\ invites'[i].room = m[1]
                /\ invites'[i].receiver = m[2]
                /\ invites'[i].status = "accepted"]_vars

\* the read task of c can still run the session-membership check
Reading(c) == rpc[c] \notin {"new", "unreg", "done"}

\* C30: the registry's room index and each connection's session set agree:
\* a member of r's member set has r in its session set; a connection in the
\* live set with r in its session set is in r's member set; and a connection
\* that is not in r's member set (after leave, unregistration or overflow
\* eviction) does not pass the session-membership check for r.
C30_IndexAndSessionAgree ==
    \A c \in Clients : \A r \in Rooms :
        /\ c \in Members(rooms, r) => inRoom(c, r)
        /\ (c \in clients /\ inRoom(c, r)) => c \in Members(rooms, r)
        /\ (Reading(c) /\ c \notin Members(rooms, r)) => ~inRoom(c, r)

\* C31: a step that enqueues a room frame (message or user_joined) for room R
\* on a connection's queue finds that connection in R's member set, with R
\* in the connection's own rooms: a connection that never joined R, or that
\* left R before, is given no frame for R.
RoomFrameTypes == {"message", "user_joined"}

GivenRoomFrame(d) ==
    /\ Len(send'[d]) = Len(send[d]) + 1
    /\ send'[d][Len(send'[d])].type \in RoomFrameTypes

C31_BroadcastOnlyToMembers ==
    [][\A d \in Clients :
          GivenRoomFrame(d)
          => LET r == send'[d][Len(send'[d])].room
             IN d \in Members(rooms, r) /\ r \in crooms[d]]_vars

\* a broadcast to a room has reached a member and come to its end, while a
\* live connection that joined the room and left it again was given nothing
C31_Witness ==
    \E t \in Tasks, d \in clients :
        /\ rpc[t] = "bcast"
        /\ got[t] # {}
        /\ Pending(t) = {}
        /\ d \notin got[t]
        /\ d \notin Members(rooms, bframe[t].room)
        /\ rpc[d] = "read"
        /\ crooms[d] # {}
        /\ bframe[t].room \notin crooms[d]
        /\ send[d] = <<>>

\* C32: a direct notification (invite_received, invite_rejected) is put on
\* one queue only, that of a live connection of the target user: when the
\* range over h.clients finds the target it settles on one of the target's
\* live connections, the send that follows appends the frame to that queue
\* and to no other, and the handler goes on to its confirmation; no other
\* step enqueues a direct notification.
DirectTypes == {"invite_received", "invite_rejected"}

GivenDirect(d) ==
    /\ Len(send'[d]) = Len(send[d]) + 1
    /\ send'[d][Len(send'[d])].type \in DirectTypes

NotifyTarget(c) ==
    IF rpc[c] \in {"inv_notify", "inv_send"} THEN hv[c].receiver
    ELSE invites[hv[c].invite].sender

C32_DirectNotificationOnOneConnection ==
    [][/\ \A c \in Clients :
            /\ ( /\ rpc[c] \in {"inv_notify", "rej_notify"}
                 /\ rpc'[c] # rpc[c]
                 /\ ClientsOf(NotifyTarget(c)) # {} )
               => /\ rpc'[c] \in {"inv_send", "rej_send"}
                  /\ hv'[c].target \in ClientsOf(NotifyTarget(c))
            /\ (rpc[c] \in {"inv_send", "rej_send"} /\ rpc'[c] # rpc[c])
               => /\ {d \in Clients : GivenDirect(d)} = {hv[c].target}
                  /\ hv[c].target \in clients
                  /\ userID(hv[c].target) = NotifyTarget(c)
                  /\ rpc'[c] \in {"inv_confirm", "rej_confirm"}
       /\ \A d \in Clients :
            GivenDirect(d)
            => \E c \in Clients : rpc[c] \in {"inv_send", "rej_send"} /\ rpc'[c] # rpc[c]
      ]_vars

\* a user holds two live connections; the invite for that user has been
\* announced on one of them and the other was given nothing
C32_Witness ==
    \E c \in Clients, d \in clients, e \in clients :
        /\ d # e
        /\ userID(d) = userID(e)
        /\ rpc[c] = "inv_confirm"
        /\ hv[c].receiver = userID(d)
        /\ hv[c].target = d
        /\ send[d] # <<>>
        /\ send[d][Len(send[d])].type = "invite_received"
        /\ send[e] = <<>>

\* C33: an accepted invite adds the acceptor to the room before user_joined
\* is broadcast: when the broadcast starts, the acceptor (unless a broadcast
\* to a full queue has evicted it meanwhile) is in the room's member set;
\* when the broadcast returns, the acceptor that was not evicted has been
\* given user_joined; and on the frames of the acceptor's connection, in the
\* order they were enqueued, every room_joined comes after the user_joined
\* that announces the acceptor in that room.
AnnouncedBefore(c, i) ==
    \E j \in 1..(i - 1) :
        /\ Stream(c)[j].type = "user_joined"
        /\ Stream(c)[j].user = userID(c)
        /\ Stream(c)[j].room = Stream(c)[i].room

InvitesOf(r, u) == {i \in 1..Len(invites) : invites[i].room = r /\ invites[i].receiver = u}

InviteChecked(c) ==
    /\ rpc[c] = "dispatch"
    /\ cur[c].type = "invite_users"
    /\ rpc'[c] # rpc[c]

C34_OnlyPendingBlocks ==
    [][\A c \in Clients :
          InviteChecked(c)
          => LET r == cur[c].room
                 u == FindUser(hv[c].username)
             IN /\ ( /\ inRoom(c, r) /\ u # 0 /\ r \in dbRooms
                     /\ InvitesOf(r, u) # {}
                     /\ \A i \in InvitesOf(r, u) : invites[i].status = "rejected" )
                   => rpc'[c] = "inv_create"
                /\ (\E i \in InvitesOf(r, u) : invites[i].status = "accepted")
                   => rpc'[c] = "err"]_vars

\* C34, amended: what refuses a new invite is a pending invite of the pair or
\* the receiver's durable membership, not the history of the pair. A request
\* of a connection in the room, for an existing room and receiver, goes on to
\* create a pending invite when the receiver is no durable member and the
\* pair has no pending invite, whatever rejected or accepted invites the
\* pair has; it is refused, and creates nothing, when the receiver is a
\* durable member or the pair has a pending invite.
C34_PendingOrMembershipBlocks ==
    [][\A c \in Clients :
          /\ InviteChecked(c)
             => LET r == cur[c].room
                    u == FindUser(hv[c].username)
                IN /\ ( /\ inRoom(c, r) /\ u # 0 /\ r \in dbRooms
                        /\ <<r, u>> \notin roomUsers
                        /\ Pendings(invites, r, u) = {} )
                      => rpc'[c] = "inv_create"
                   /\ (<<r, u>> \in roomUsers \/ Pendings(invites, r, u) # {})
                      => rpc'[c] = "err"
                   /\ invites' = invites
          /\ (rpc[c] = "inv_create" /\ rpc'[c] = "inv_notify")
             => invites' = Append(invites, [room |-> hv[c].room, sender |-> userID(c),
                                            receiver |-> hv[c].receiver,
                                            status |-> "pending"])
          /\ (rpc[c] = "err" /\ rpc'[c] # rpc[c]) => invites' = invites]_vars

\* the pair's invite was rejected and a later invite_users has created a new
\* pending invite for the same pair
C34_Witness ==
    \E i \in 1..Len(invites), j \in 1..Len(invites) :
        /\ i < j
        /\ invites[i].room = invites[j].room
        /\ invites[i].receiver = invites[j].receiver
        /\ invites[i].status = "rejected"
        /\ invites[j].status = "pending"

\* C35: REST CreateMessage goes on to create and broadcast the message only
\* for a sender with a durable membership of the room; a request of anybody
\* else changes nothing. The broadcast ranges over the room's member set in
\* the registry, whoever the sender is and whether or not the sender holds a
\* connection, and when it returns every connection in that set has been
\* given the frame.
C35_RestMessageNeedsDurableMembership ==
    [][/\ \A u \in Users, r \in Rooms :
            CreateMessageAs(u, r)
            => IF <<r, u>> \in roomUsers
               THEN rpc'[RestTask] = "msg_create"
               ELSE UNCHANGED <<rpc, bframe, todo, got, send, rooms, clients, crooms, durable>>
       /\ (rpc[RestTask] # "msg_create" /\ rpc'[RestTask] = "msg_create")
          => <<bframe'[RestTask].room, bframe'[RestTask].user>> \in roomUsers
       /\ (rpc[RestTask] = "msg_create" /\ rpc'[RestTask] = "bcast")
          => todo'[RestTask] = Members(rooms, bframe[RestTask].room)
       /\ (rpc[RestTask] = "bcast" /\ rpc'[RestTask] = "idle")
          => Members(rooms, bframe[RestTask].room) \subseteq got[RestTask]
       /\ \A d \in Clients :
            (GivenRoomFrame(d) /\ rpc[RestTask] = "bcast" /\ rpc'[RestTask] = "bcast")
            => d \in Members(rooms, bframe[RestTask].room)
      ]_vars

\* a durable member without any connection has posted to the room, and the
\* broadcast has given the message to a connection of another user that is
\* in the room's member set without being a durable member
C35_Witness ==
    \E d \in Clients :
        /\ rpc[RestTask] = "bcast"
        /\ bframe[RestTask].type = "message"
        /\ ClientsOf(bframe[RestTask].user) = {}
        /\ d \in got[RestTask]
        /\ d \in Members(rooms, bframe[RestTask].room)
        /\ <<bframe[RestTask].room, userID(d)>> \notin roomUsers
        /\ send[d] # <<>>
        /\ send[d][Len(send[d])] = bframe[RestTask]

\* C36, as stated: a connection request whose user_id is missing or is no
\* unsigned integer changes nothing (no Client, no entry in the live set, no
\* task started), and a connection whose tasks are started is in the live
\* set by then.
RequestRefused ==
    UNCHANGED <<uid, conn, rpc, wpc, clients, rooms, hubpc, send, closed, crooms, cur, deadline>>

C36_RegisteredBeforeTasksStart ==
    [][/\ \A c \in Clients, s \in NumberStrings :
            (HandleConnectionRequest(c, s) /\ ~ParseUint(s).ok) => RequestRefused
       /\ \A c \in Clients :
            (rpc[c] = "start" /\ rpc'[c] = "read") => c \in clients]_vars

\* C36, amended: such a request changes nothing, and a connection whose
\* tasks are started has been received by the hub task on h.register: it is
\* in the live set already, or the hub task is about to insert it, and that
\* insertion is the hub's next step.
C36_HandedToHubBeforeTasksStart ==
    [][/\ \A c \in Clients, s \in NumberStrings :
            (HandleConnectionRequest(c, s) /\ ~ParseUint(s).ok) => RequestRefused
       /\ \A c \in Clients :
            /\ (rpc[c] = "start" /\ rpc'[c] = "read")
               => (c \in clients \/ hubpc = <<"register", c>>)
            /\ (rpc[c] \in {"new", "register"} /\ rpc'[c] # rpc[c])
               => /\ rpc'[c] \in {"register", "start"}
                  /\ wpc'[c] = "new"
                  /\ c \notin clients'
            /\ (hubpc = <<"register", c>> /\ hubpc' # hubpc) => c \in clients'
      ]_vars

\* one request has been refused and one connection has been upgraded,
\* registered and started
C36_Witness ==
    \E c \in Clients :
        /\ nreq = 2
        /\ rpc[c] = "read"
        /\ wpc[c] = "run"
        /\ c \in clients
        /\ \A d \in Clients \ {c} : rpc[d] = "new" /\ ~conn[d] /\ d \notin clients

\* C37: an envelope that decodes but whose type has no case in the switch, or
\* whose payload is not a string where the case takes a room id string
\* (join_room, leave_room, accept_invite, reject_invite), falls out of the
\* switch: the live set, the room index, the connection's rooms, every
\* queue and the tables stay as they are, no frame is enqueued, and the
\* read task is back at reading.
Unhandled(e) == ~(e.type \in StringPayloadTypes /\ IsString(e.payload))

C37_UnhandledEnvelopeIgnored ==
    [][\A c \in Clients :
        (rpc[c] = "decode" /\ rpc'[c] # "decode" /\ Unhandled(cur[c]))
        => /\ rpc'[c] = "read"
           /\ cur'[c] = NoEnvelope
           /\ UNCHANGED <<clients, rooms, crooms, send, closed, conn, wpc, hubpc, uid, hv,
                          durable, panicked>>]_vars

\* a live connection that is in a room and whose user has a pending invite
\* holds an accept_invite envelope with a payload that is no string
C37_Witness ==
    \E c \in clients :
        /\ rpc[c] = "decode"
        /\ cur[c].type = "accept_invite"
        /\ cur[c].payload.kind = "object"
        /\ InAnyRoom(c)
        /\ \E i \in 1..Len(invites) :
              invites[i].receiver = userID(c) /\ invites[i].status = "pending"

\* C39: a room id string that ParseUint refuses is taken for room 0 and the
\* envelope is handled, not dropped: the switch hands the handler room 0,
\* join_room then makes the connection a member of room 0 in the room index
\* and in its own rooms, and accept_invite and reject_invite look up the
\* pending invite of the user for room 0 (and answer with an error when
\* there is none, whatever other invites the user has).
BadRoomId(e) == e.type \in StringPayloadTypes /\ IsString(e.payload) /\ ~ParseUint(e.payload).ok

C39_UnparsableRoomIdIsRoomZero ==
    [][\A c \in Clients :
        /\ (rpc[c] = "decode" /\ rpc'[c] # "decode" /\ BadRoomId(cur[c]))
           => /\ rpc'[c] = "dispatch"
              /\ cur'[c] = [type |-> cur[c].type, room |-> 0]
        /\ (rpc[c] = "dispatch" /\ rpc'[c] # "dispatch" /\ cur[c].room = 0)
           => /\ cur[c].type = "join_room"
                 => c \in Members(rooms', 0) /\ 0 \in crooms'[c] /\ rpc'[c] = "read"
              /\ cur[c].type \in {"accept_invite", "reject_invite"}
                 => IF FindPending(invites, 0, userID(c)) = 0
                    THEN rpc'[c] = "err" /\ invites' = invites
                    ELSE hv'[c].invite = FindPending(invites, 0, userID(c))
       ]_vars

\* a connection whose join_room carried a string that is no number is a
\* member of room 0, and its user's invite for another room is still pending
C39_Witness ==
    \E c \in clients :
        /\ c \in Members(rooms, 0)
        /\ 0 \in crooms[c]
        /\ rpc[c] = "read"
        /\ \E i \in 1..Len(invites) :
              invites[i].receiver = userID(c) /\ invites[i].status = "pending"

\* C38: leave_room by a connection c, and the hub's unregistration of c (the
\* removal from the live set with the close of c's queue, and the removal
\* from the room index), change only c's own entries: every room keeps its
\* other members, every other connection keeps its own rooms, its queue and
\* the state of its queue, and the tables (rooms, room memberships, invites)
\* are as before, so the user of c is still a durable member of the rooms it
\* was a durable member of.
OnlyOwnEntries(c) ==
    /\ \A r \in Rooms \cup {0} : Members(rooms', r) \ {c} = Members(rooms, r) \ {c}
    /\ \A d \in Clients \ {c} :
          /\ crooms'[d] = crooms[d]
          /\ send'[d] = send[d]
          /\ closed'[d] = closed[d]
          /\ (d \in clients') = (d \in clients)
    /\ durable' = durable

C38_LeaveAndUnregisterTouchOnlyOwnEntries ==
    [][\A c \in Clients :
        /\ (rpc[c] = "dispatch" /\ cur[c].type = "leave_room" /\ rpc'[c] # "dispatch")
           => OnlyOwnEntries(c) /\ send'[c] = send[c] /\ closed'[c] = closed[c]
        /\ (rpc[c] = "unreg" /\ rpc'[c] # "unreg") => OnlyOwnEntries(c)
        /\ (hubpc = <<"rooms", c>> /\ hubpc' # hubpc) => OnlyOwnEntries(c)
       ]_vars

\* the connection of a user who accepted an invite is gone from the live set
\* and from the room it was in, another connection is still in that room with
\* a frame in its queue, and the user is still a durable member of the room
C38_Witness ==
    \E c \in Clients, d \in Clients, r \in Rooms :
        /\ c # d
        /\ rpc[c] = "done"
        /\ c \notin clients
        /\ hubpc = <<"select", 0>>
        /\ r \in crooms[c]
        /\ c \notin Members(rooms, r)
        /\ d \in Members(rooms, r)
        /\ send[d] # <<>>
        /\ ~closed[d]
        /\ <<r, userID(c)>> \in roomUsers
====
